---- MODULE Spec2Model ----
(***************************************************************************)
(* Model of package ztype: nullable scalar wrappers (Numeric[T], Byte,     *)
(* Bool, String, Time, Duration, Map) carrying {value, valid, unmarshaled} *)
(* and their text / JSON / database entry points.                          *)
(*                                                                         *)
(* Representation.                                                         *)
(*  - A byte slice is a sequence of one-character strings.                 *)
(*  - An integer of any width is a record [neg, mag]: a sign and a         *)
(*    magnitude written as little-endian base-256 limbs without leading    *)
(*    zero limbs, so that 64-bit values and their wraparound are exact.    *)
(*  - A float is a record [cls, m, x]: NaN, +Inf, -Inf, or the finite      *)
(*    decimal m * 10^x with m not divisible by ten.                        *)
(***************************************************************************)
EXTENDS Integers, Sequences, FiniteSets, TLC

\* ------------------------------------------------------------------------
\* Bounds of the model
\* ------------------------------------------------------------------------

\* Small values -MaxSmall..MaxSmall are used as Set inputs and payloads.
MaxSmall == 1

\* ------------------------------------------------------------------------
\* Natural numbers as little-endian base-256 limb sequences
\* ------------------------------------------------------------------------

Max2(a, b) == IF a >= b THEN a ELSE b

NatZeros(k) == [i \in 1..k |-> 0]

\* drop the zero limbs at the top
NatNorm(s) ==
    IF \A i \in 1..Len(s) : s[i] = 0 THEN << >>
    ELSE SubSeq(s, 1, CHOOSE i \in 1..Len(s) :
                        s[i] # 0 /\ \A j \in (i + 1)..Len(s) : s[j] = 0)

Limb(s, i) == IF i <= Len(s) THEN s[i] ELSE 0

\* the limbs of a carry below 256^2
CarryLimbs(k) ==
    IF k = 0 THEN << >>
    ELSE IF k < 256 THEN <<k>>
    ELSE <<k % 256, k \div 256>>

\* s * m + c for m <= 10000 and c < 10000
NatMulAdd(s, m, c) ==
    LET n == Len(s)
        carry[i \in 0..n] ==
            IF i = 0 THEN c ELSE (s[i] * m + carry[i - 1]) \div 256
    IN  [i \in 1..n |-> (s[i] * m + carry[i - 1]) % 256] \o CarryLimbs(carry[n])

NatOf(k) == CarryLimbs(k)

\* quotient and remainder of s by a small divisor d, from the top limb down
NatDivRem(s, d) ==
    LET n == Len(s)
        rem[j \in 0..n] ==
            IF j = 0 THEN 0 ELSE (rem[j - 1] * 256 + s[n - j + 1]) % d
    IN  [q |-> NatNorm([i \in 1..n |-> (rem[n - i] * 256 + s[i]) \div d]),
         r |-> rem[n]]

\* -1, 0, 1 for a < b, a = b, a > b (normalised operands)
NatCmp(a, b) ==
    IF Len(a) < Len(b) THEN -1
    ELSE IF Len(a) > Len(b) THEN 1
    ELSE IF a = b THEN 0
    ELSE LET i == CHOOSE k \in 1..Len(a) :
                      a[k] # b[k] /\ \A j \in (k + 1)..Len(a) : a[j] = b[j]
         IN  IF a[i] < b[i] THEN -1 ELSE 1

NatAdd(a, b) ==
    LET n == Max2(Len(a), Len(b))
        carry[i \in 0..n] ==
            IF i = 0 THEN 0
            ELSE (Limb(a, i) + Limb(b, i) + carry[i - 1]) \div 256
    IN  [i \in 1..n |-> (Limb(a, i) + Limb(b, i) + carry[i - 1]) % 256]
            \o CarryLimbs(carry[n])

\* a - b for a >= b
NatSub(a, b) ==
    LET n == Len(a)
        borrow[i \in 0..n] ==
            IF i = 0 THEN 0
            ELSE IF a[i] - Limb(b, i) - borrow[i - 1] < 0 THEN 1 ELSE 0
    IN  NatNorm([i \in 1..n |->
                    (a[i] - Limb(b, i) - borrow[i - 1] + 256) % 256])

\* 2^bits
Pow2(bits) == NatZeros(bits \div 8) \o <<2 ^ (bits % 8)>>

\* ------------------------------------------------------------------------
\* Integers: [neg, mag]; zero is [neg |-> FALSE, mag |-> << >>]
\* ------------------------------------------------------------------------

MkInt(neg, mag) == [neg |-> neg /\ mag # << >>, mag |-> mag]

IntOf(k) == IF k < 0 THEN MkInt(TRUE, NatOf(0 - k)) ELSE MkInt(FALSE, NatOf(k))

IntZero == MkInt(FALSE, << >>)

IntNeg(a) == MkInt(~a.neg, a.mag)

\* -1, 0, 1 for a < b, a = b, a > b
IntCmp(a, b) ==
    IF a.neg /\ ~b.neg THEN -1
    ELSE IF ~a.neg /\ b.neg THEN 1
    ELSE IF a.neg THEN NatCmp(b.mag, a.mag)
    ELSE NatCmp(a.mag, b.mag)

IntLess(a, b) == IntCmp(a, b) < 0

IntGreater(a, b) == IntCmp(a, b) > 0

\* a + b
IntAdd(a, b) ==
    IF a.neg = b.neg THEN MkInt(a.neg, NatAdd(a.mag, b.mag))
    ELSE IF NatCmp(a.mag, b.mag) >= 0 THEN MkInt(a.neg, NatSub(a.mag, b.mag))
    ELSE MkInt(b.neg, NatSub(b.mag, a.mag))

\* a - b
IntSub(a, b) == IntAdd(a, IntNeg(b))

\* a * b, one limb of b at a time
NatMul(a, b) ==
    LET acc[i \in 0..Len(b)] ==
            IF i = 0 THEN << >>
            ELSE NatAdd(acc[i - 1], NatNorm(NatZeros(i - 1) \o NatMulAdd(a, b[i], 0)))
    IN  acc[Len(b)]

IntMul(a, b) == MkInt(a.neg # b.neg, NatMul(a.mag, b.mag))

\* quotient and remainder of a by b > 0: long division, one limb of a at a
\* time from the top, each quotient limb found bit by bit; the quotient
\* limbs are collected from the top and turned round at the end
NatQuoRem(a, b) ==
    LET n == Len(a)
        Take(p, w, sh) ==
            IF p.r = << >> THEN p
            ELSE IF NatCmp(p.r, sh) >= 0 THEN [d |-> p.d + w, r |-> NatSub(p.r, sh)]
            ELSE p
        Digit(cur) ==
            LET bit[k \in 0..8] ==
                    IF k = 0 THEN [d |-> 0, r |-> cur]
                    ELSE Take(bit[k - 1], 2 ^ (8 - k), NatMulAdd(b, 2 ^ (8 - k), 0))
            IN  IF NatCmp(cur, b) < 0 THEN [d |-> 0, r |-> cur] ELSE bit[8]
        Join(top, g) == [top |-> top \o <<g.d>>, r |-> g.r]
        Advance(prev, limb) ==
            IF prev.r = << >> /\ limb = 0 THEN Join(prev.top, [d |-> 0, r |-> << >>])
            ELSE Join(prev.top, Digit(<<limb>> \o prev.r))
        st[j \in 0..n] ==
            IF j = 0 THEN [top |-> << >>, r |-> << >>]
            ELSE Advance(st[j - 1], a[n - j + 1])
        Turned(s) == NatNorm([i \in 1..Len(s) |-> s[Len(s) + 1 - i]])
        Result(last) == [q |-> Turned(last.top), r |-> last.r]
    IN  Result(st[n])

\* a / b truncated toward zero, b # 0
IntQuo(a, b) == MkInt(a.neg # b.neg, NatQuoRem(a.mag, b.mag).q)

\* ------------------------------------------------------------------------
\* The numeric kinds (NumberType) and their ranges
\* ------------------------------------------------------------------------

SignedKinds == {"int", "int8", "int16", "int32", "int64"}

UnsignedKinds == {"uint", "uint8", "uint16", "uint32", "uint64", "uintptr"}

FloatKinds == {"float32", "float64"}

IntegerKinds == SignedKinds \cup UnsignedKinds

NumericKinds == IntegerKinds \cup FloatKinds

\* int, uint and uintptr have the width of the machine word
WordKinds == {"int", "uint", "uintptr"}

WordSizes == {32, 64}

Bits(kind, wb) ==
    CASE kind \in {"int8", "uint8"} -> 8
      [] kind \in {"int16", "uint16"} -> 16
      [] kind \in {"int32", "uint32", "float32"} -> 32
      [] kind \in {"int64", "uint64", "float64"} -> 64
      [] kind \in WordKinds -> wb

MaxIntOf(bits) == MkInt(FALSE, NatSub(Pow2(bits - 1), <<1>>))

MinIntOf(bits) == MkInt(TRUE, Pow2(bits - 1))

MaxUintOf(bits) == MkInt(FALSE, NatSub(Pow2(bits), <<1>>))

MinOf(kind, wb) ==
    IF kind \in SignedKinds THEN MinIntOf(Bits(kind, wb)) ELSE IntZero

MaxOf(kind, wb) ==
    IF kind \in SignedKinds THEN MaxIntOf(Bits(kind, wb))
    ELSE MaxUintOf(Bits(kind, wb))

InRange(kind, wb, v) ==
    ~IntLess(v, MinOf(kind, wb)) /\ ~IntGreater(v, MaxOf(kind, wb))

\* The conversion T(x) of an integer x to an integer kind: x modulo 2^bits,
\* read as two's complement for a signed kind.
ConvertInt(kind, wb, v) ==
    LET bits  == Bits(kind, wb)
        limbs == bits \div 8
        low   == NatNorm(SubSeq(v.mag \o NatZeros(limbs), 1, limbs))
        u     == IF v.neg /\ low # << >> THEN NatSub(Pow2(bits), low) ELSE low
    IN  IF kind \in SignedKinds /\ NatCmp(u, Pow2(bits - 1)) >= 0
        THEN MkInt(TRUE, NatSub(Pow2(bits), u))
        ELSE MkInt(FALSE, u)

\* ------------------------------------------------------------------------
\* Byte slices and decimal text
\* ------------------------------------------------------------------------

DigitChars == <<"0", "1", "2", "3", "4", "5", "6", "7", "8", "9">>

IsDigit(c) == \E i \in 1..10 : DigitChars[i] = c

DigitVal(c) == (CHOOSE i \in 1..10 : DigitChars[i] = c) - 1

AllDigits(s) == \A i \in 1..Len(s) : IsDigit(s[i])

\* the value of at most nine decimal digits
SmallVal(s) ==
    LET f[i \in 0..Len(s)] == IF i = 0 THEN 0 ELSE f[i - 1] * 10 + DigitVal(s[i])
    IN  f[Len(s)]

\* the value of a string of decimal digits, taken four digits at a time
DigitsNat(s) ==
    LET n     == Len(s)
        nch   == (n + 3) \div 4
        first == n - 4 * (nch - 1)
        chunk(j) == IF j = 1 THEN SubSeq(s, 1, first)
                    ELSE SubSeq(s, first + 4 * (j - 2) + 1, first + 4 * (j - 1))
        f[j \in 0..nch] ==
            IF j = 0 THEN << >>
            ELSE NatNorm(NatMulAdd(f[j - 1], 10000, SmallVal(chunk(j))))
    IN  f[nch]

\* the decimal digits of a natural number, most significant first: the
\* number is cut into groups of four digits by dividing by 10^4
FormatNat(mag) ==
    LET n == Len(mag)
        q[k \in 0..n] == IF k = 0 THEN mag ELSE NatDivRem(q[k - 1], 10000).q
        group(k) == NatDivRem(q[k], 10000).r
        all == [i \in 1..(4 * (n + 1)) |->
                   LET k == n - ((i - 1) \div 4)
                       p == 3 - ((i - 1) % 4)
                   IN  DigitChars[((group(k) \div (10 ^ p)) % 10) + 1]]
        lead == IF \E i \in 1..Len(all) : all[i] # "0"
                THEN CHOOSE i \in 1..Len(all) :
                        all[i] # "0" /\ \A j \in 1..(i - 1) : all[j] = "0"
                ELSE Len(all)
    IN  SubSeq(all, lead, Len(all))

\* strconv.FormatInt(v, 10), strconv.FormatUint(v, 10)
FormatInt(v) == IF v.neg THEN <<"-">> \o FormatNat(v.mag) ELSE FormatNat(v.mag)

\* strconv.StrconvParseUint(s, 10, bitSize): no sign is accepted
StrconvParseUint(s, bitSize) ==
    LET Ranged(v) == IF IntGreater(v, MaxUintOf(bitSize))
                     THEN [err |-> "range", v |-> MaxUintOf(bitSize)]
                     ELSE [err |-> "nil", v |-> v]
    IN  IF s = << >> \/ ~AllDigits(s) THEN [err |-> "syntax", v |-> IntZero]
        ELSE Ranged(MkInt(FALSE, DigitsNat(s)))

\* strconv.StrconvParseInt(s, 10, bitSize): an optional sign, then digits
StrconvParseInt(s, bitSize) ==
    LET Ranged(v) == IF IntGreater(v, MaxIntOf(bitSize))
                     THEN [err |-> "range", v |-> MaxIntOf(bitSize)]
                     ELSE IF IntLess(v, MinIntOf(bitSize))
                     THEN [err |-> "range", v |-> MinIntOf(bitSize)]
                     ELSE [err |-> "nil", v |-> v]
        Digits(neg, rest) == IF rest = << >> \/ ~AllDigits(rest)
                             THEN [err |-> "syntax", v |-> IntZero]
                             ELSE Ranged(MkInt(neg, DigitsNat(rest)))
    IN  IF s = << >> THEN [err |-> "syntax", v |-> IntZero]
        ELSE Digits(s[1] = "-", IF s[1] \in {"+", "-"} THEN Tail(s) ELSE s)

\* ------------------------------------------------------------------------
\* Floats: NaN, +Inf, -Inf, or the finite decimal m * 10^x (m not divisible
\* by ten, at most nine digits; zero is m = 0, x = 0)
\* ------------------------------------------------------------------------

Abs(k) == IF k < 0 THEN 0 - k ELSE k

FNaN == [cls |-> "nan", m |-> 0, x |-> 0]

FInf == [cls |-> "inf", m |-> 0, x |-> 0]

FNegInf == [cls |-> "ninf", m |-> 0, x |-> 0]

FloatFin(m, x) ==
    IF m = 0 THEN [cls |-> "fin", m |-> 0, x |-> 0]
    ELSE LET k == CHOOSE k \in 0..9 :
                      m % (10 ^ k) = 0 /\ (k = 9 \/ m % (10 ^ (k + 1)) # 0)
         IN  [cls |-> "fin", m |-> m \div (10 ^ k), x |-> x + k]

FloatZero == FloatFin(0, 0)

\* number of decimal digits of |k|, k below 10^9
NDigits(k) == CHOOSE d \in 1..9 : Abs(k) < 10 ^ d /\ (d = 1 \/ Abs(k) >= 10 ^ (d - 1))

\* the decimal digits of a small natural number
SmallDigits(k) ==
    [i \in 1..NDigits(k) |-> DigitChars[((k \div (10 ^ (NDigits(k) - i))) % 10) + 1]]

\* the decimal order of a finite non-zero float: 10^(ord-1) <= |f| < 10^ord
Ord(f) == NDigits(f.m) + f.x

\* the first nine significant digits of a finite float, as a number
Lead9(f) == Abs(f.m) * 10 ^ (9 - NDigits(f.m))

\* |f| > math.MaxFloat32 = 3.40282346638528859811704183484516925440e+38
AboveMaxFloat32(f) ==
    f.cls = "fin" /\ f.m # 0 /\ (Ord(f) > 39 \/ (Ord(f) = 39 /\ Lead9(f) >= 340282347))

\* |f| rounds beyond the largest finite value of the width
OverflowsFloat(f, bitSize) ==
    f.cls = "fin" /\ f.m # 0 /\
    IF bitSize = 32
    THEN Ord(f) > 39 \/ (Ord(f) = 39 /\ Lead9(f) >= 340282357)
    ELSE Ord(f) > 309 \/ (Ord(f) = 309 /\ Lead9(f) >= 179769314)

\* the result of an operation, rounded to the width: beyond the largest
\* finite value it is an infinity
FloatRound(f, bitSize) ==
    IF OverflowsFloat(f, bitSize) THEN (IF f.m < 0 THEN FNegInf ELSE FInf) ELSE f

FloatNeg(f) ==
    CASE f.cls = "nan" -> FNaN
      [] f.cls = "inf" -> FNegInf
      [] f.cls = "ninf" -> FInf
      [] f.cls = "fin" -> FloatFin(0 - f.m, f.x)

\* -1, 0, 1: the sign of a float that is not NaN
FloatSign(f) ==
    CASE f.cls = "inf" -> 1
      [] f.cls = "ninf" -> 0 - 1
      [] f.cls = "fin" -> IF f.m > 0 THEN 1 ELSE IF f.m < 0 THEN 0 - 1 ELSE 0

FloatSigned(sign) == IF sign < 0 THEN FNegInf ELSE FInf

\* a < b of two positive finite floats, by decimal order and leading digits
FloatMagLess(a, b) ==
    Ord(a) < Ord(b) \/ (Ord(a) = Ord(b) /\ Lead9(a) < Lead9(b))

\* a == b, a < b: false when either operand is NaN
FloatEq(a, b) == a.cls # "nan" /\ b.cls # "nan" /\ a = b

FloatLess(a, b) ==
    /\ a.cls # "nan" /\ b.cls # "nan" /\ a # b
    /\ CASE a.cls = "ninf" \/ b.cls = "inf" -> TRUE
         [] a.cls = "inf" \/ b.cls = "ninf" -> FALSE
         [] FloatSign(a) # FloatSign(b) -> FloatSign(a) < FloatSign(b)
         [] FloatSign(a) > 0 -> FloatMagLess(a, b)
         [] OTHER -> FloatMagLess(b, a)

\* a + b; the finite sum is exact for the operands of the model
FloatAdd(a, b, bitSize) ==
    CASE a.cls = "nan" \/ b.cls = "nan" -> FNaN
      [] a.cls # "fin" /\ b.cls # "fin" -> IF a.cls = b.cls THEN a ELSE FNaN
      [] a.cls # "fin" -> a
      [] b.cls # "fin" -> b
      [] OTHER ->
           LET x == IF a.x <= b.x THEN a.x ELSE b.x
           IN  FloatRound(FloatFin(a.m * 10 ^ (a.x - x) + b.m * 10 ^ (b.x - x), x),
                          bitSize)

FloatSub(a, b, bitSize) == FloatAdd(a, FloatNeg(b), bitSize)

\* a * b; the finite product is exact for the operands of the model
FloatMul(a, b, bitSize) ==
    CASE a.cls = "nan" \/ b.cls = "nan" -> FNaN
      [] a.cls # "fin" \/ b.cls # "fin" ->
           IF FloatSign(a) * FloatSign(b) = 0 THEN FNaN
           ELSE FloatSigned(FloatSign(a) * FloatSign(b))
      [] OTHER -> FloatRound(FloatFin(a.m * b.m, a.x + b.x), bitSize)

\* a / b; the finite quotient is taken for divisors 1, 2 and 5 times a power
\* of ten, where it is a finite decimal
FloatQuo(a, b, bitSize) ==
    CASE a.cls = "nan" \/ b.cls = "nan" -> FNaN
      [] a.cls # "fin" /\ b.cls # "fin" -> FNaN
      [] a.cls # "fin" -> FloatSigned(FloatSign(a) * (IF FloatSign(b) < 0 THEN 0 - 1 ELSE 1))
      [] b.cls # "fin" -> FloatZero
      [] b.m = 0 -> IF a.m = 0 THEN FNaN ELSE FloatSigned(FloatSign(a))
      [] Abs(b.m) = 1 -> FloatRound(FloatFin(a.m * b.m, a.x - b.x), bitSize)
      [] Abs(b.m) = 2 ->
           FloatRound(FloatFin(a.m * 5 * (b.m \div 2), a.x - b.x - 1), bitSize)
      [] Abs(b.m) = 5 ->
           FloatRound(FloatFin(a.m * 2 * (b.m \div 5), a.x - b.x - 1), bitSize)

FirstIndex(s, chars) ==
    IF \E i \in 1..Len(s) : s[i] \in chars
    THEN CHOOSE i \in 1..Len(s) : s[i] \in chars /\ \A j \in 1..(i - 1) : s[j] \notin chars
    ELSE 0

StripSign(s) == IF s # << >> /\ s[1] \in {"+", "-"} THEN Tail(s) ELSE s

NaNSpellings == {<<"N", "a", "N">>, <<"n", "a", "n">>, <<"N", "A", "N">>}

InfSpellings == {<<"I", "n", "f">>, <<"i", "n", "f">>, <<"I", "N", "F">>,
                 <<"I", "n", "f", "i", "n", "i", "t", "y">>,
                 <<"i", "n", "f", "i", "n", "i", "t", "y">>}

\* strconv.StrconvParseFloat(s, bitSize), decimal forms:
\* [+-] digits [. digits] [e [+-] digits], and the spellings of NaN and Inf
StrconvParseFloat(s, bitSize) ==
    LET neg == s # << >> /\ s[1] = "-"
        Ranged(f) == IF OverflowsFloat(f, bitSize)
                     THEN [err |-> "range", v |-> IF neg THEN FNegInf ELSE FInf]
                     ELSE [err |-> "nil", v |-> f]
        Signed(k, minus) == IF minus THEN 0 - k ELSE k
        Digits(ip, fp, hasE, eNeg, eDig) ==
            IF /\ ip \o fp # << >>
               /\ AllDigits(ip) /\ AllDigits(fp)
               /\ (hasE => eDig # << >> /\ AllDigits(eDig))
            THEN Ranged(FloatFin(Signed(SmallVal(ip \o fp), neg),
                                 Signed(SmallVal(eDig), eNeg) - Len(fp)))
            ELSE [err |-> "syntax", v |-> FloatZero]
        Mantissa(mant, dot, hasE, expo) ==
            Digits(IF dot = 0 THEN mant ELSE SubSeq(mant, 1, dot - 1),
                   IF dot = 0 THEN << >> ELSE SubSeq(mant, dot + 1, Len(mant)),
                   hasE, expo # << >> /\ expo[1] = "-", StripSign(expo))
        Exponent(mant, hasE, expo) ==
            Mantissa(mant, FirstIndex(mant, {"."}), hasE, expo)
        Body(body, ePos) ==
            Exponent(IF ePos = 0 THEN body ELSE SubSeq(body, 1, ePos - 1),
                     ePos # 0,
                     IF ePos = 0 THEN << >> ELSE SubSeq(body, ePos + 1, Len(body)))
        Unsigned(body) ==
            IF body \in InfSpellings
            THEN [err |-> "nil", v |-> IF neg THEN FNegInf ELSE FInf]
            ELSE Body(body, FirstIndex(body, {"e", "E"}))
    IN  IF s \in NaNSpellings THEN [err |-> "nil", v |-> FNaN]
        ELSE Unsigned(StripSign(s))

\* strconv.FormatFloat(f, 'f', -1, bits) of a finite float
FormatFloatF(f) ==
    LET digs == SmallDigits(Abs(f.m))
        nd   == Len(digs)
        sign == IF f.m < 0 THEN <<"-">> ELSE << >>
        zs(k) == [i \in 1..k |-> "0"]
    IN  sign \o
        (IF f.x >= 0 THEN digs \o zs(f.x)
         ELSE IF nd > 0 - f.x
         THEN SubSeq(digs, 1, nd + f.x) \o <<".">> \o SubSeq(digs, nd + f.x + 1, nd)
         ELSE <<"0", ".">> \o zs(0 - f.x - nd) \o digs)

\* strconv.FormatFloat(f, 'e', -1, bits) of a finite float, with the exponent
\* written without padding as encoding/json rewrites it
FormatFloatE(f) ==
    LET digs == SmallDigits(Abs(f.m))
        nd   == Len(digs)
        sign == IF f.m < 0 THEN <<"-">> ELSE << >>
        e    == nd - 1 + f.x
    IN  sign \o <<digs[1]>>
        \o (IF nd > 1 THEN <<".">> \o SubSeq(digs, 2, nd) ELSE << >>)
        \o <<"e", IF e < 0 THEN "-" ELSE "+">> \o SmallDigits(Abs(e))

\* fmt.Sprintf("%f", f) of a finite float with at most six decimals
FormatFloat6(f) ==
    LET digs == SmallDigits(Abs(f.m))
        nd   == Len(digs)
        sign == IF f.m < 0 THEN <<"-">> ELSE << >>
        zs(k) == [i \in 1..k |-> "0"]
    IN  sign \o
        (IF f.x >= 0 THEN digs \o zs(f.x) \o <<".">> \o zs(6)
         ELSE IF nd > 0 - f.x
         THEN SubSeq(digs, 1, nd + f.x) \o <<".">>
              \o SubSeq(digs, nd + f.x + 1, nd) \o zs(6 + f.x)
         ELSE <<"0", ".">> \o zs(0 - f.x - nd) \o digs \o zs(6 + f.x))

\* ------------------------------------------------------------------------
\* encoding/json: literals
\* ------------------------------------------------------------------------

NullLit == <<"n", "u", "l", "l">>

TrueLit == <<"t", "r", "u", "e">>

FalseLit == <<"f", "a", "l", "s", "e">>

\* surrounding blanks are not part of a JSON value
JsonTrim(data) ==
    IF \A i \in 1..Len(data) : data[i] = " " THEN << >>
    ELSE LET a == CHOOSE i \in 1..Len(data) :
                      data[i] # " " /\ \A j \in 1..(i - 1) : data[j] = " "
             b == CHOOSE i \in 1..Len(data) :
                      data[i] # " " /\ \A j \in (i + 1)..Len(data) : data[j] = " "
         IN  SubSeq(data, a, b)

\* -? (0 | [1-9][0-9]*) (. [0-9]+)? ([eE] [+-]? [0-9]+)?
IsJsonNumber(t) ==
    LET body == IF t # << >> /\ t[1] = "-" THEN Tail(t) ELSE t
        ePos == FirstIndex(body, {"e", "E"})
        mant == IF ePos = 0 THEN body ELSE SubSeq(body, 1, ePos - 1)
        eDig == IF ePos = 0 THEN << >>
                ELSE StripSign(SubSeq(body, ePos + 1, Len(body)))
        dot  == FirstIndex(mant, {"."})
        ip   == IF dot = 0 THEN mant ELSE SubSeq(mant, 1, dot - 1)
        fp   == IF dot = 0 THEN << >> ELSE SubSeq(mant, dot + 1, Len(mant))
    IN  /\ ip # << >> /\ AllDigits(ip)
        /\ (Len(ip) > 1 => ip[1] # "0")
        /\ (dot # 0 => fp # << >> /\ AllDigits(fp))
        /\ (ePos # 0 => eDig # << >> /\ AllDigits(eDig))

\* position i of s is escaped by a backslash before it
Escaped(s) ==
    LET esc[i \in 0..Len(s)] ==
            IF i <= 1 THEN FALSE ELSE s[i - 1] = "\\" /\ ~esc[i - 1]
    IN  esc

\* a quoted string whose escapes are \" and \\
IsJsonString(t) ==
    /\ Len(t) >= 2 /\ t[1] = "\"" /\ t[Len(t)] = "\""
    /\ LET inner == SubSeq(t, 2, Len(t) - 1)
           esc   == Escaped(inner)
       IN  \A i \in 1..Len(inner) :
              /\ (inner[i] = "\"" => esc[i])
              /\ (inner[i] = "\\" /\ ~esc[i] =>
                     i < Len(inner) /\ inner[i + 1] \in {"\"", "\\"})

JsonUnquote(t) ==
    LET inner == SubSeq(t, 2, Len(t) - 1)
        esc   == Escaped(inner)
        out[i \in 0..Len(inner)] ==
            IF i = 0 THEN << >>
            ELSE IF inner[i] = "\\" /\ ~esc[i] THEN out[i - 1]
            ELSE out[i - 1] \o <<inner[i]>>
    IN  out[Len(inner)]

\* json.Marshal of a string
JsonQuote(str) ==
    LET out[i \in 0..Len(str)] ==
            IF i = 0 THEN <<"\"">>
            ELSE IF str[i] \in {"\"", "\\"} THEN out[i - 1] \o <<"\\", str[i]>>
            ELSE out[i - 1] \o <<str[i]>>
    IN  out[Len(str)] \o <<"\"">>

\* map[string]int values of the model: functions from some of MapKeys
MapKeys == <<"a", "b">>

MapKVs ==
    {<< >>, [k \in {"a"} |-> 1], [k \in {"a"} |-> 2],
     [k \in {"a", "b"} |-> IF k = "a" THEN 1 ELSE 2]}

\* json.Marshal of a non-nil map: the entries in key order
JsonMarshalKV(kv) ==
    LET ent(i) == IF MapKeys[i] \in DOMAIN kv
                  THEN <<"\"", MapKeys[i], "\"", ":">> \o SmallDigits(kv[MapKeys[i]])
                  ELSE << >>
        out[i \in 0..Len(MapKeys)] ==
            IF i = 0 THEN << >>
            ELSE IF ent(i) = << >> THEN out[i - 1]
            ELSE IF out[i - 1] = << >> THEN ent(i)
            ELSE out[i - 1] \o <<",">> \o ent(i)
    IN  <<"{">> \o out[Len(MapKeys)] \o <<"}">>

\* the objects the model decodes are the encodings of its maps
JsonObjects == {JsonMarshalKV(kv) : kv \in MapKVs}

JsonObjectValue(t) == CHOOSE kv \in MapKVs : JsonMarshalKV(kv) = t

\* which kind of JSON value a text is; "invalid" when it is not JSON
JsonKind(data) ==
    LET Kind(t) == CASE t = NullLit -> "null"
                     [] t = TrueLit -> "true"
                     [] t = FalseLit -> "false"
                     [] IsJsonNumber(t) -> "number"
                     [] IsJsonString(t) -> "string"
                     [] t \in JsonObjects -> "object"
                     [] OTHER -> "invalid"
    IN  Kind(JsonTrim(data))

\* json.Marshal of a value of a numeric kind
JsonMarshalNumber(kind, v) ==
    IF kind \in FloatKinds
    THEN IF v.cls # "fin" THEN [err |-> "unsupported", data |-> << >>]
         ELSE IF v.m # 0 /\ (Ord(v) <= 0 - 6 \/ Ord(v) >= 22)
         THEN [err |-> "nil", data |-> FormatFloatE(v)]
         ELSE [err |-> "nil", data |-> FormatFloatF(v)]
    ELSE [err |-> "nil", data |-> FormatInt(v)]

\* json.Unmarshal(data, &value) for value of a numeric kind holding cur:
\* a JSON null leaves the target alone, a failure leaves it alone too
JsonUnmarshalNumber(data, kind, wb, cur) ==
    LET Stored(jk, r) ==
            IF jk = "invalid" THEN [err |-> "syntax", v |-> cur]
            ELSE IF jk = "null" THEN [err |-> "nil", v |-> cur]
            ELSE IF jk # "number" THEN [err |-> "type", v |-> cur]
            ELSE IF r.err # "nil" THEN [err |-> "type", v |-> cur]
            ELSE IF kind \in IntegerKinds /\ ~InRange(kind, wb, r.v)
            THEN [err |-> "type", v |-> cur]
            ELSE [err |-> "nil", v |-> r.v]
    IN  Stored(JsonKind(data),
               IF kind \in FloatKinds
               THEN StrconvParseFloat(JsonTrim(data), Bits(kind, wb))
               ELSE IF kind \in SignedKinds
               THEN StrconvParseInt(JsonTrim(data), 64)
               ELSE StrconvParseUint(JsonTrim(data), 64))

\* ------------------------------------------------------------------------
\* database/sql: convertAssign into a numeric destination
\* ------------------------------------------------------------------------

\* a driver value: its dynamic type t and the value in the field of that type
\* (i for int64, f for float64, s for string and []byte, b for bool)
SrcNil == [t |-> "nil", i |-> [neg |-> FALSE, mag |-> << >>],
           f |-> [cls |-> "fin", m |-> 0, x |-> 0], s |-> << >>, b |-> FALSE,
           tm |-> [y |-> 1, mo |-> 1, d |-> 1, h |-> 0, mi |-> 0, s |-> 0]]

SrcInt(v) == [SrcNil EXCEPT !.t = "int64", !.i = v]

SrcFloat(v) == [SrcNil EXCEPT !.t = "float64", !.f = v]

SrcString(v) == [SrcNil EXCEPT !.t = "string", !.s = v]

SrcBytes(v) == [SrcNil EXCEPT !.t = "bytes", !.s = v]

SrcBool(v) == [SrcNil EXCEPT !.t = "bool", !.b = v]

SrcTime(v) == [SrcNil EXCEPT !.t = "time", !.tm = v]

\* strconv.FormatFloat(f, 'g', -1, 64)
FormatFloatG(f) ==
    LET Padded(e, pos) ==
            IF Len(e) - pos = 2
            THEN SubSeq(e, 1, pos + 1) \o <<"0">> \o SubSeq(e, pos + 2, Len(e))
            ELSE e
    IN  IF f.cls = "nan" THEN <<"N", "a", "N">>
        ELSE IF f.cls = "inf" THEN <<"+", "I", "n", "f">>
        ELSE IF f.cls = "ninf" THEN <<"-", "I", "n", "f">>
        ELSE IF f.m # 0 /\ (Ord(f) - 1 < 0 - 4 \/ Ord(f) - 1 >= 21)
        THEN Padded(FormatFloatE(f), FirstIndex(FormatFloatE(f), {"e"}))
        ELSE FormatFloatF(f)

\* asString(src)
asString(src) ==
    CASE src.t \in {"string", "bytes"} -> src.s
      [] src.t = "int64" -> FormatInt(src.i)
      [] src.t = "float64" -> FormatFloatG(src.f)
      [] src.t = "bool" -> IF src.b THEN TrueLit ELSE FalseLit

\* convertAssign(&dest, src) for dest of a numeric kind holding cur and a
\* non-nil src: an assignable source is stored as it is, every other source
\* goes through its text; a failure leaves dest alone
convertAssignNumber(kind, wb, cur, src) ==
    LET Converted(r) == IF r.err # "nil" THEN [err |-> "convert", v |-> cur]
                        ELSE [err |-> "nil", v |-> r.v]
    IN  IF (src.t = "int64" /\ kind = "int64") \/ (src.t = "float64" /\ kind = "float64")
        THEN [err |-> "nil", v |-> IF kind = "int64" THEN src.i ELSE src.f]
        ELSE IF kind \in SignedKinds \cup (UnsignedKinds \ {"uintptr"}) \cup FloatKinds
        THEN Converted(IF kind \in SignedKinds
                       THEN StrconvParseInt(asString(src), Bits(kind, wb))
                       ELSE IF kind \in FloatKinds
                       THEN StrconvParseFloat(asString(src), Bits(kind, wb))
                       ELSE StrconvParseUint(asString(src), Bits(kind, wb)))
        ELSE [err |-> "unsupported", v |-> cur]

\* ------------------------------------------------------------------------
\* Numeric[T]: {value: sql.Null[T]{V, Valid}, unmarshaled}
\* ------------------------------------------------------------------------

ZeroOf(kind) == IF kind \in FloatKinds THEN FloatZero ELSE IntZero

NewNumber(value) == [value |-> value, valid |-> TRUE, unmarshaled |-> FALSE]

NewNullNumber(kind) == [value |-> ZeroOf(kind), valid |-> FALSE, unmarshaled |-> FALSE]

NumericSet(n, value) == [n EXCEPT !.value = value, !.valid = TRUE]

\* SetNull without the reset of the stored value
NumericSetNullKeepsValue(n, kind) == [n EXCEPT !.valid = FALSE]

NumericSetNull(n, kind) == [n EXCEPT !.value = ZeroOf(kind), !.valid = FALSE]

parseFloat(data, kind) ==
    LET Checked(r) ==
            IF r.err # "nil" THEN [err |-> r.err, v |-> FloatZero]
            ELSE IF kind = "float32"
                    /\ (r.v.cls \in {"inf", "ninf"} \/ AboveMaxFloat32(r.v))
            THEN [err |-> "overflow", v |-> FloatZero]
            ELSE [err |-> "nil", v |-> r.v]
    IN  Checked(StrconvParseFloat(data, 64))

parseUint(data, kind, wb) ==
    LET Checked(r) ==
            IF r.err # "nil" THEN [err |-> r.err, v |-> IntZero]
            ELSE IF kind \in {"uint", "uint8", "uint16", "uint32"}
                    /\ IntGreater(r.v, MaxUintOf(Bits(kind, wb)))
            THEN [err |-> "overflow", v |-> IntZero]
            ELSE [err |-> "nil", v |-> ConvertInt(kind, wb, r.v)]
    IN  Checked(StrconvParseUint(data, 64))

\* parseInt without the comparison against the limits of the kind
parseIntUnchecked(data, kind, wb) ==
    LET Checked(r) ==
            IF r.err # "nil" THEN [err |-> r.err, v |-> IntZero]
            ELSE [err |-> "nil", v |-> ConvertInt(kind, wb, r.v)]
    IN  Checked(StrconvParseInt(data, 64))

parseInt(data, kind, wb) ==
    LET Checked(r) ==
            IF r.err # "nil" THEN [err |-> r.err, v |-> IntZero]
            ELSE IF kind \in {"int", "int8", "int16", "int32"}
                    /\ (IntGreater(r.v, MaxIntOf(Bits(kind, wb)))
                        \/ IntLess(r.v, MinIntOf(Bits(kind, wb))))
            THEN [err |-> "overflow", v |-> IntZero]
            ELSE [err |-> "nil", v |-> ConvertInt(kind, wb, r.v)]
    IN  Checked(StrconvParseInt(data, 64))

\* the switch on reflect.Kind: uintptr is not among the unsigned cases
NumericParse(data, kind, wb) ==
    IF kind \in {"uint", "uint8", "uint16", "uint32", "uint64"}
    THEN parseUint(data, kind, wb)
    ELSE IF kind \in FloatKinds THEN parseFloat(data, kind)
    ELSE parseInt(data, kind, wb)

\* UnmarshalText raising the flag only once the payload has been accepted
NumericUnmarshalTextFlagOnSuccess(n, kind, wb, data) ==
    LET Store(r) ==
            IF r.err # "nil" THEN [n |-> n, err |-> r.err]
            ELSE [n |-> [n EXCEPT !.value = r.v, !.valid = TRUE,
                                  !.unmarshaled = TRUE],
                  err |-> "nil"]
    IN  IF Len(data) = 0
        THEN [n |-> [n EXCEPT !.valid = FALSE, !.unmarshaled = TRUE], err |-> "nil"]
        ELSE Store(NumericParse(data, kind, wb))

NumericUnmarshalText(n, kind, wb, data) ==
    LET n1 == [n EXCEPT !.unmarshaled = TRUE]
        Store(r) ==
            IF r.err # "nil" THEN [n |-> n1, err |-> r.err]
            ELSE [n |-> [n1 EXCEPT !.value = r.v, !.valid = TRUE], err |-> "nil"]
    IN  IF Len(data) = 0
        THEN [n |-> [n1 EXCEPT !.valid = FALSE], err |-> "nil"]
        ELSE Store(NumericParse(data, kind, wb))

\* MarshalJSON writing the zero value as null
NumericMarshalJSONOmitsZero(n, kind) ==
    IF n.valid /\ n.value # ZeroOf(kind) THEN JsonMarshalNumber(kind, n.value)
    ELSE [err |-> "nil", data |-> NullLit]

NumericMarshalJSON(n, kind) ==
    IF n.valid THEN JsonMarshalNumber(kind, n.value)
    ELSE [err |-> "nil", data |-> NullLit]

NumericUnmarshalJSON(n, kind, wb, data) ==
    LET n1 == [n EXCEPT !.unmarshaled = TRUE]
        Store(r) ==
            IF r.err # "nil"
            THEN [n |-> [n1 EXCEPT !.valid = FALSE], err |-> r.err]
            ELSE [n |-> [n1 EXCEPT !.valid = TRUE, !.value = r.v], err |-> "nil"]
    IN  IF data = NullLit
        THEN [n |-> [n1 EXCEPT !.valid = FALSE, !.value = ZeroOf(kind)],
              err |-> "nil"]
        ELSE Store(JsonUnmarshalNumber(data, kind, wb, ZeroOf(kind)))
\* Scan whose nil branch clears Valid only
NumericScanNilKeepsValue(n, kind, wb, src) ==
    LET Store(r) == [n |-> [n EXCEPT !.valid = TRUE, !.value = r.v], err |-> r.err]
    IN  IF src.t = "nil"
        THEN [n |-> [n EXCEPT !.valid = FALSE], err |-> "nil"]
        ELSE Store(convertAssignNumber(kind, wb, n.value, src))

\* sql.Null[T].Scan: Valid is set before the conversion is attempted
NumericScan(n, kind, wb, src) ==
    LET Store(r) == [n |-> [n EXCEPT !.valid = TRUE, !.value = r.v], err |-> r.err]
    IN  IF src.t = "nil"
        THEN [n |-> [n EXCEPT !.value = ZeroOf(kind), !.valid = FALSE],
              err |-> "nil"]
        ELSE Store(convertAssignNumber(kind, wb, n.value, src))

NumericString(n, kind) ==
    IF ~n.valid THEN <<"<", "N", "U", "L", "L", ">">>
    ELSE IF kind \in FloatKinds
    THEN (IF n.value.cls = "fin" THEN FormatFloat6(n.value)
          ELSE FormatFloatG(n.value))
    ELSE FormatInt(n.value)

NumericMarshalText(n, kind) ==
    IF n.valid THEN [err |-> "nil", data |-> NumericString(n, kind)]
    ELSE [err |-> "nil", data |-> << >>]

\* ------------------------------------------------------------------------
\* Numeric[T]: arithmetic, comparison and equality
\* ------------------------------------------------------------------------
\* + that stops at the ends of the range of T instead of wrapping
AddTSaturating(kind, wb, a, b) ==
    IF kind \in FloatKinds THEN FloatAdd(a, b, Bits(kind, wb))
    ELSE IF IntGreater(IntAdd(a, b), MaxOf(kind, wb)) THEN MaxOf(kind, wb)
    ELSE IF IntLess(IntAdd(a, b), MinOf(kind, wb)) THEN MinOf(kind, wb)
    ELSE IntAdd(a, b)
\* driver.DefaultParameterConverter.ConvertValue on a value of kind T:
\* signed kinds and the unsigned kinds below 64 bits convert to int64 (uint
\* by plain conversion, which wraps), uint64 is refused from 2^63 on, floats
\* widen to float64, and uintptr is not a supported kind
DriverConvertValue(kind, v) ==
    CASE kind \in SignedKinds -> [v |-> SrcInt(v), err |-> "nil"]
      [] kind \in {"uint", "uint8", "uint16", "uint32"} ->
           [v |-> SrcInt(ConvertInt("int64", 64, v)), err |-> "nil"]
      [] kind = "uint64" ->
           IF IntGreater(v, MaxIntOf(64))
           THEN [v |-> SrcNil, err |-> "uint64 values with high bit set are not supported"]
           ELSE [v |-> SrcInt(v), err |-> "nil"]
      [] kind \in FloatKinds -> [v |-> SrcFloat(v), err |-> "nil"]
      [] kind = "uintptr" -> [v |-> SrcNil, err |-> "unsupported type"]

\* a driver value that is the T itself
DriverRaw(kind, v) ==
    IF kind \in FloatKinds THEN [SrcNil EXCEPT !.t = kind, !.f = v]
    ELSE [SrcNil EXCEPT !.t = kind, !.i = v]

\* sql.Null[T].Value: nil when not Valid; otherwise, by the release of the
\* standard library, either V as it is or V through the default converter
SqlNullValue(n, kind, converts) ==
    IF ~n.valid THEN [v |-> SrcNil, err |-> "nil"]
    ELSE IF converts THEN DriverConvertValue(kind, n.value)
    ELSE [v |-> DriverRaw(kind, n.value), err |-> "nil"]

NumericValue(n, kind, converts) == SqlNullValue(n, kind, converts)

\* the operators +, -, *, /, ==, < of the wrapped type T: integers wrap to
\* the width of T, floats follow IEEE 754
AddT(kind, wb, a, b) ==
    IF kind \in FloatKinds THEN FloatAdd(a, b, Bits(kind, wb))
    ELSE ConvertInt(kind, wb, IntAdd(a, b))

SubT(kind, wb, a, b) ==
    IF kind \in FloatKinds THEN FloatSub(a, b, Bits(kind, wb))
    ELSE ConvertInt(kind, wb, IntSub(a, b))

MulT(kind, wb, a, b) ==
    IF kind \in FloatKinds THEN FloatMul(a, b, Bits(kind, wb))
    ELSE ConvertInt(kind, wb, IntMul(a, b))

\* b is not the integer zero
QuoT(kind, wb, a, b) ==
    IF kind \in FloatKinds THEN FloatQuo(a, b, Bits(kind, wb))
    ELSE ConvertInt(kind, wb, IntQuo(a, b))

EqT(kind, a, b) == IF kind \in FloatKinds THEN FloatEq(a, b) ELSE a = b

LessT(kind, a, b) == IF kind \in FloatKinds THEN FloatLess(a, b) ELSE IntLess(a, b)

NumericEqual(n, other, kind) ==
    n.valid = other.valid /\ EqT(kind, n.value, other.value)

NumericEqualRaw(n, other, kind) == EqT(kind, n.value, other)
\* Add without the test of the operands' validity
NumericAddIgnoresNull(n, other, kind, wb) ==
    NewNumber(AddT(kind, wb, n.value, other.value))

NumericAdd(n, other, kind, wb) ==
    IF ~n.valid \/ ~other.valid THEN NewNullNumber(kind)
    ELSE NewNumber(AddT(kind, wb, n.value, other.value))
\* Sub that writes the difference into its copy of the receiver
NumericSubIntoReceiver(n, other, kind, wb) ==
    IF ~n.valid \/ ~other.valid
    THEN [n EXCEPT !.value = ZeroOf(kind), !.valid = FALSE]
    ELSE [n EXCEPT !.value = SubT(kind, wb, n.value, other.value)]

NumericSub(n, other, kind, wb) ==
    IF ~n.valid \/ ~other.valid THEN NewNullNumber(kind)
    ELSE NewNumber(SubT(kind, wb, n.value, other.value))

NumericMult(n, other, kind, wb) ==
    IF ~n.valid \/ ~other.valid THEN NewNullNumber(kind)
    ELSE NewNumber(MulT(kind, wb, n.value, other.value))

\* n.value.V / other.value.V: the division of Go panics for an integer
\* divisor that is zero, and for no other operands
NumericQuotient(n, other, kind, wb) ==
    IF kind \in IntegerKinds /\ other.value = IntZero
    THEN [n |-> NewNullNumber(kind), err |-> "nil", panic |-> TRUE]
    ELSE [n |-> NewNumber(QuoT(kind, wb, n.value, other.value)), err |-> "nil",
          panic |-> FALSE]

\* SafeDiv that hands the dividend back with the error
NumericSafeDivKeepsDividend(n, other, kind, wb) ==
    IF ~other.valid \/ EqT(kind, other.value, ZeroOf(kind))
    THEN [n |-> n, err |-> "cannot divide by zero", panic |-> FALSE]
    ELSE NumericQuotient(n, other, kind, wb)

\* SafeDiv that tests the divisor for null only
NumericSafeDivNullOnly(n, other, kind, wb) ==
    IF ~other.valid
    THEN [n |-> NewNullNumber(kind), err |-> "cannot divide by zero", panic |-> FALSE]
    ELSE NumericQuotient(n, other, kind, wb)

\* the validity of the receiver is not looked at
NumericSafeDiv(n, other, kind, wb) ==
    IF ~other.valid \/ EqT(kind, other.value, ZeroOf(kind))
    THEN [n |-> NewNullNumber(kind), err |-> "cannot divide by zero", panic |-> FALSE]
    ELSE NumericQuotient(n, other, kind, wb)

\* panics with the error of SafeDiv
NumericDiv(n, other, kind, wb) ==
    LET Checked(r) == [n |-> r.n, panic |-> r.err # "nil" \/ r.panic]
    IN  Checked(NumericSafeDiv(n, other, kind, wb))

\* -1, 0, 1 by < and >
CompareT(kind, a, b) ==
    IF LessT(kind, a, b) THEN 0 - 1 ELSE IF LessT(kind, b, a) THEN 1 ELSE 0

\* Compare that takes a null operand for its stored value
NumericCompareNullAsValue(n, other, kind) ==
    [int |-> CompareT(kind, n.value, other.value), err |-> "nil"]

NumericCompare(n, other, kind) ==
    IF ~n.valid \/ ~other.valid THEN [int |-> 0, err |-> "cannot compare null values"]
    ELSE [int |-> CompareT(kind, n.value, other.value), err |-> "nil"]

NumericCompareRaw(n, other, kind) ==
    IF ~n.valid THEN [int |-> 0, err |-> "cannot compare null values"]
    ELSE [int |-> CompareT(kind, n.value, other), err |-> "nil"]

NumericGreater(n, other, kind) ==
    IF ~n.valid \/ ~other.valid THEN FALSE
    ELSE LessT(kind, other.value, n.value)

\* a >= b: a > b or a == b
NumericGreaterOrEqual(n, other, kind) ==
    IF ~n.valid \/ ~other.valid THEN FALSE
    ELSE LessT(kind, other.value, n.value) \/ EqT(kind, n.value, other.value)

NumericLess(n, other, kind) ==
    IF ~n.valid \/ ~other.valid THEN FALSE
    ELSE LessT(kind, n.value, other.value)

NumericLessOrEqual(n, other, kind) ==
    IF ~n.valid \/ ~other.valid THEN FALSE
    ELSE LessT(kind, n.value, other.value) \/ EqT(kind, n.value, other.value)
\* Min that is null as soon as one operand is null
NumericMinAbsorbing(n, other, kind) ==
    IF ~n.valid \/ ~other.valid THEN NewNullNumber(kind)
    ELSE IF LessT(kind, n.value, other.value) \/ EqT(kind, n.value, other.value)
    THEN n
    ELSE other

NumericMin(n, other, kind) ==
    IF ~n.valid /\ ~other.valid THEN NewNullNumber(kind)
    ELSE IF ~n.valid THEN other
    ELSE IF ~other.valid THEN n
    ELSE IF LessT(kind, n.value, other.value) \/ EqT(kind, n.value, other.value)
    THEN n
    ELSE other

NumericMax(n, other, kind) ==
    IF ~n.valid /\ ~other.valid THEN NewNullNumber(kind)
    ELSE IF ~n.valid THEN other
    ELSE IF ~other.valid THEN n
    ELSE IF LessT(kind, other.value, n.value) \/ EqT(kind, n.value, other.value)
    THEN n
    ELSE other

\* ------------------------------------------------------------------------
\* encoding/json into bool, string and map targets
\* ------------------------------------------------------------------------

JsonUnmarshalBool(data, cur) ==
    LET Stored(jk) ==
            IF jk = "invalid" THEN [err |-> "syntax", v |-> cur]
            ELSE IF jk = "null" THEN [err |-> "nil", v |-> cur]
            ELSE IF jk \in {"true", "false"} THEN [err |-> "nil", v |-> jk = "true"]
            ELSE [err |-> "type", v |-> cur]
    IN  Stored(JsonKind(data))

JsonUnmarshalString(data, cur) ==
    LET Stored(jk) ==
            IF jk = "invalid" THEN [err |-> "syntax", v |-> cur]
            ELSE IF jk = "null" THEN [err |-> "nil", v |-> cur]
            ELSE IF jk = "string"
            THEN [err |-> "nil", v |-> JsonUnquote(JsonTrim(data))]
            ELSE [err |-> "type", v |-> cur]
    IN  Stored(JsonKind(data))

\* a map value is [nil, kv]: the nil map has no storage, the empty map has
\* storage and no entry
NilMap == [nil |-> TRUE, kv |-> << >>]

MakeMap(kv) == [nil |-> FALSE, kv |-> kv]

JsonUnmarshalMap(data, cur) ==
    LET Stored(jk) ==
            IF jk = "invalid" THEN [err |-> "syntax", v |-> cur]
            ELSE IF jk = "null" THEN [err |-> "nil", v |-> cur]
            ELSE IF jk = "object"
            THEN [err |-> "nil", v |-> MakeMap(JsonObjectValue(JsonTrim(data)))]
            ELSE [err |-> "type", v |-> cur]
    IN  Stored(JsonKind(data))

JsonMarshalMap(v) ==
    IF v.nil THEN [err |-> "nil", data |-> NullLit]
    ELSE [err |-> "nil", data |-> JsonMarshalKV(v.kv)]

\* ------------------------------------------------------------------------
\* Byte: {value: sql.NullByte{Byte, Valid}, unmarshaled}
\* ------------------------------------------------------------------------

NewByte(value) == [value |-> value, valid |-> TRUE, unmarshaled |-> FALSE]

NewNullByte == [value |-> IntZero, valid |-> FALSE, unmarshaled |-> FALSE]

ByteSet(b, value) == [b EXCEPT !.value = value, !.valid = TRUE]

ByteSetNull(b) == [b EXCEPT !.value = IntZero, !.valid = FALSE]

ByteUnmarshalText(b, data) ==
    LET b1 == [b EXCEPT !.unmarshaled = TRUE]
        Store(r) ==
            IF r.err # "nil" THEN [n |-> b1, err |-> r.err]
            ELSE [n |-> [b1 EXCEPT !.value = r.v, !.valid = TRUE], err |-> "nil"]
    IN  Store(StrconvParseUint(data, 8))

ByteMarshalJSON(b) ==
    IF b.valid THEN JsonMarshalNumber("uint8", b.value)
    ELSE [err |-> "nil", data |-> NullLit]

\* UnmarshalJSON whose null branch leaves the stored byte
ByteUnmarshalJSONKeepsValue(b, data) ==
    LET b1 == [b EXCEPT !.unmarshaled = TRUE]
        Store(r) ==
            IF r.err # "nil"
            THEN [n |-> [b1 EXCEPT !.valid = FALSE], err |-> r.err]
            ELSE [n |-> [b1 EXCEPT !.value = r.v, !.valid = TRUE], err |-> "nil"]
    IN  IF data = NullLit
        THEN [n |-> [b1 EXCEPT !.valid = FALSE], err |-> "nil"]
        ELSE Store(JsonUnmarshalNumber(data, "uint8", 64, b.value))

ByteUnmarshalJSON(b, data) ==
    LET b1 == [b EXCEPT !.unmarshaled = TRUE]
        Store(r) ==
            IF r.err # "nil"
            THEN [n |-> [b1 EXCEPT !.valid = FALSE], err |-> r.err]
            ELSE [n |-> [b1 EXCEPT !.value = r.v, !.valid = TRUE], err |-> "nil"]
    IN  IF data = NullLit
        THEN [n |-> [b1 EXCEPT !.valid = FALSE, !.value = IntZero], err |-> "nil"]
        ELSE Store(JsonUnmarshalNumber(data, "uint8", 64, b.value))

\* ------------------------------------------------------------------------
\* Bool: {value: sql.NullBool{Bool, Valid}, unmarshaled}
\* ------------------------------------------------------------------------

NewBool(value) == [value |-> value, valid |-> TRUE, unmarshaled |-> FALSE]

NewNullBool == [value |-> FALSE, valid |-> FALSE, unmarshaled |-> FALSE]

BoolSet(b, value) == [b EXCEPT !.value = value, !.valid = TRUE]

BoolSetNull(b) == [b EXCEPT !.value = FALSE, !.valid = FALSE]

\* strconv.ParseBool
BoolTrueTexts ==
    {<<"1">>, <<"t">>, <<"T">>, <<"T", "R", "U", "E">>, TrueLit,
     <<"T", "r", "u", "e">>}

BoolFalseTexts ==
    {<<"0">>, <<"f">>, <<"F">>, <<"F", "A", "L", "S", "E">>, FalseLit,
     <<"F", "a", "l", "s", "e">>}

StrconvParseBool(str) ==
    IF str \in BoolTrueTexts THEN [err |-> "nil", v |-> TRUE]
    ELSE IF str \in BoolFalseTexts THEN [err |-> "nil", v |-> FALSE]
    ELSE [err |-> "syntax", v |-> FALSE]

BoolUnmarshalText(b, data) ==
    LET b1 == [b EXCEPT !.unmarshaled = TRUE]
        Store(r) ==
            IF r.err # "nil" THEN [n |-> b1, err |-> r.err]
            ELSE [n |-> [b1 EXCEPT !.value = r.v, !.valid = TRUE], err |-> "nil"]
    IN  Store(StrconvParseBool(data))

BoolMarshalJSON(b) ==
    IF b.valid
    THEN [err |-> "nil", data |-> IF b.value THEN TrueLit ELSE FalseLit]
    ELSE [err |-> "nil", data |-> NullLit]

\* Valid is set before the payload is decoded
BoolUnmarshalJSON(b, data) ==
    LET b1 == [b EXCEPT !.unmarshaled = TRUE]
        Store(r) == [n |-> [b1 EXCEPT !.valid = TRUE, !.value = r.v], err |-> r.err]
    IN  IF data = NullLit
        THEN [n |-> [b1 EXCEPT !.valid = FALSE, !.value = FALSE], err |-> "nil"]
        ELSE Store(JsonUnmarshalBool(data, b.value))

\* ------------------------------------------------------------------------
\* String: {value: sql.NullString{String, Valid}, unmarshaled}
\* ------------------------------------------------------------------------

NewString(value) == [value |-> value, valid |-> TRUE, unmarshaled |-> FALSE]

NewNullString == [value |-> << >>, valid |-> FALSE, unmarshaled |-> FALSE]

StringSet(str, value) == [str EXCEPT !.value = value, !.valid = TRUE]

StringSetNull(str) == [str EXCEPT !.value = << >>, !.valid = FALSE]

StringUnmarshalText(str, data) ==
    [n |-> [str EXCEPT !.unmarshaled = TRUE, !.value = data, !.valid = TRUE],
     err |-> "nil"]

StringMarshalJSON(str) ==
    IF str.valid THEN [err |-> "nil", data |-> JsonQuote(str.value)]
    ELSE [err |-> "nil", data |-> NullLit]

\* Valid is set before the payload is decoded
StringUnmarshalJSON(str, data) ==
    LET s1 == [str EXCEPT !.unmarshaled = TRUE]
        Store(r) == [n |-> [s1 EXCEPT !.valid = TRUE, !.value = r.v], err |-> r.err]
    IN  IF data = NullLit
        THEN [n |-> [s1 EXCEPT !.valid = FALSE, !.value = << >>], err |-> "nil"]
        ELSE Store(JsonUnmarshalString(data, str.value))

\* ------------------------------------------------------------------------
\* Map[K, V]: {value: map[K]V, valid, unmarshaled}
\* ------------------------------------------------------------------------

NewMap(value) == [value |-> value, valid |-> TRUE, unmarshaled |-> FALSE]

NewNullMap == [value |-> NilMap, valid |-> FALSE, unmarshaled |-> FALSE]

MapSet(m, value) == [m EXCEPT !.value = value, !.valid = TRUE]

MapSetNull(m) == [m EXCEPT !.value = MakeMap(<< >>), !.valid = FALSE]

MapMarshalJSON(m) ==
    IF m.valid THEN JsonMarshalMap(m.value)
    ELSE [err |-> "nil", data |-> NullLit]

\* the payload is decoded into a fresh nil map
MapUnmarshalJSON(m, data) ==
    LET m1 == [m EXCEPT !.unmarshaled = TRUE]
        Store(r) ==
            IF r.err # "nil"
            THEN [n |-> [m1 EXCEPT !.valid = FALSE], err |-> r.err]
            ELSE [n |-> [m1 EXCEPT !.valid = TRUE, !.value = r.v], err |-> "nil"]
    IN  IF data = NullLit
        THEN [n |-> [m1 EXCEPT !.valid = FALSE, !.value = MakeMap(<< >>)],
              err |-> "nil"]
        ELSE Store(JsonUnmarshalMap(data, NilMap))

MapUnmarshalText(m, data) == MapUnmarshalJSON(m, data)

\* kv with key bound to value: m.value[key] = value on a map with storage
MapPut(kv, key, value) ==
    [k \in DOMAIN kv \cup {key} |-> IF k = key THEN value ELSE kv[k]]

\* delete(m.value, key)
MapDrop(kv, key) ==
    IF DOMAIN kv \ {key} = {} THEN << >>
    ELSE [k \in DOMAIN kv \ {key} |-> kv[k]]

\* item, ok := m.value[key]: reading a nil map finds nothing
MapGetItem(m, key) ==
    IF key \in DOMAIN m.value.kv THEN [item |-> m.value.kv[key], ok |-> TRUE]
    ELSE [item |-> 0, ok |-> FALSE]

\* SetItem that gives a map without storage its storage first
MapSetItemAllocates(m, key, value) ==
    [n |-> [m EXCEPT !.value = MakeMap(MapPut(m.value.kv, key, value)),
                     !.valid = TRUE],
     panic |-> FALSE]

\* m.value[key] = value; m.valid = true: the assignment to an entry of a nil
\* map panics before valid is written
MapSetItem(m, key, value) ==
    IF m.value.nil THEN [n |-> m, panic |-> TRUE]
    ELSE [n |-> [m EXCEPT !.value.kv = MapPut(m.value.kv, key, value),
                          !.valid = TRUE],
          panic |-> FALSE]

MapSetItemIf(m, key, value, condition) ==
    IF condition THEN MapSetItem(m, key, value) ELSE [n |-> m, panic |-> FALSE]

MapDeleteItem(m, key) ==
    LET Found(g) ==
            IF g.ok
            THEN [n |-> [m EXCEPT !.value.kv = MapDrop(m.value.kv, key)],
                  item |-> g.item, ok |-> TRUE]
            ELSE [n |-> m, item |-> 0, ok |-> FALSE]
    IN  Found(MapGetItem(m, key))

\* maps.Insert(m.value, items); m.valid = true: items is the sequence of the
\* pairs the iterator yields; the first pair written to a nil map panics
MapInsert(m, items) ==
    LET put[i \in 0..Len(items)] ==
            IF i = 0 THEN m.value.kv
            ELSE MapPut(put[i - 1], items[i][1], items[i][2])
    IN  IF m.value.nil /\ items # << >> THEN [n |-> m, panic |-> TRUE]
        ELSE [n |-> [m EXCEPT !.value.kv = put[Len(items)], !.valid = TRUE],
              panic |-> FALSE]

\* CompareAndSwap that writes whenever the key is present
MapCompareAndSwapAnyValue(m, key, old, new) ==
    LET Swap(g) ==
            IF ~g.ok THEN [n |-> m, swapped |-> FALSE, panic |-> FALSE]
            ELSE [n |-> MapSetItem(m, key, new).n, swapped |-> TRUE,
                  panic |-> MapSetItem(m, key, new).panic]
    IN  Swap(MapGetItem(m, key))

\* MapComparable.CompareAndSwap
MapCompareAndSwap(m, key, old, new) ==
    LET Swap(g) ==
            IF ~g.ok \/ g.item # old
            THEN [n |-> m, swapped |-> FALSE, panic |-> FALSE]
            ELSE [n |-> MapSetItem(m, key, new).n, swapped |-> TRUE,
                  panic |-> MapSetItem(m, key, new).panic]
    IN  Swap(MapGetItem(m, key))

\* MapComparable.DeleteIfEquals
MapDeleteIfEquals(m, key, value) ==
    LET Delete(g) ==
            IF g.ok /\ g.item = value
            THEN [n |-> MapDeleteItem(m, key).n, deleted |-> TRUE]
            ELSE [n |-> m, deleted |-> FALSE]
    IN  Delete(MapGetItem(m, key))

\* ------------------------------------------------------------------------
\* time.Duration: integer nanoseconds; the model holds whole seconds
\* ------------------------------------------------------------------------

MaxInt64 == MaxIntOf(64)

\* n times each of a list of small factors
NatMulSmalls(n, factors) ==
    LET f[i \in 0..Len(factors)] ==
            IF i = 0 THEN n ELSE NatNorm(NatMulAdd(f[i - 1], factors[i], 0))
    IN  f[Len(factors)]

Giga == <<10, 10, 10, 10, 10, 10, 10, 10, 10>>

\* unitMap of time.ParseDuration, in nanoseconds, as factors
DurationUnits == {<<"s">>, <<"m">>, <<"h">>}

UnitFactors(unit) ==
    CASE unit = <<"s">> -> Giga
      [] unit = <<"m">> -> Giga \o <<60>>
      [] unit = <<"h">> -> Giga \o <<60, 60>>

\* time.ParseDuration for [+-]? (digits unit)+ with the units h, m, s
ParseDuration(str) ==
    LET neg  == str # << >> /\ str[1] = "-"
        body == StripSign(str)
        close(st) ==
            IF st.unit \in DurationUnits
            THEN [st EXCEPT !.total = NatAdd(st.total,
                                NatMulSmalls(st.num, UnitFactors(st.unit))),
                            !.num = << >>, !.has = FALSE, !.unit = << >>]
            ELSE [st EXCEPT !.ok = FALSE]
        digit(p, c) ==
            [p EXCEPT !.num = NatNorm(NatMulAdd(p.num, 10, DigitVal(c))),
                      !.has = TRUE]
        step(p, c) ==
            IF ~p.ok THEN p
            ELSE IF IsDigit(c)
            THEN digit(IF p.unit # << >> THEN close(p) ELSE p, c)
            ELSE IF ~p.has THEN [p EXCEPT !.ok = FALSE]
            ELSE [p EXCEPT !.unit = p.unit \o <<c>>]
        st[i \in 0..Len(body)] ==
            IF i = 0
            THEN [ok |-> TRUE, total |-> << >>, num |-> << >>, has |-> FALSE,
                  unit |-> << >>]
            ELSE step(st[i - 1], body[i])
        last(p) == IF p.ok /\ p.has THEN close(p) ELSE [p EXCEPT !.ok = FALSE]
        Result(end) ==
            IF ~end.ok THEN [err |-> "syntax", v |-> IntZero]
            ELSE IF IntGreater(MkInt(FALSE, end.total),
                               IF neg THEN IntNeg(MinIntOf(64)) ELSE MaxInt64)
            THEN [err |-> "syntax", v |-> IntZero]
            ELSE [err |-> "nil", v |-> MkInt(neg, end.total)]
    IN  IF body = <<"0">> THEN [err |-> "nil", v |-> IntZero]
        ELSE IF body = << >> THEN [err |-> "syntax", v |-> IntZero]
        ELSE Result(last(st[Len(body)]))

\* time.Duration.String of a whole number of seconds
DurationString(v) ==
    LET q[i \in 0..9] == IF i = 0 THEN v.mag ELSE NatDivRem(q[i - 1], 10).q
        sign == IF v.neg THEN <<"-">> ELSE << >>
        Text(hours, m, s) ==
            IF hours # << >>
            THEN sign \o FormatNat(hours) \o <<"h">> \o SmallDigits(m) \o <<"m">>
                 \o SmallDigits(s) \o <<"s">>
            ELSE IF m # 0
            THEN sign \o SmallDigits(m) \o <<"m">> \o SmallDigits(s) \o <<"s">>
            ELSE sign \o SmallDigits(s) \o <<"s">>
        Minutes(mins, s) == Text(mins.q, mins.r, s)
        Seconds(secs) == Minutes(NatDivRem(secs.q, 60), secs.r)
    IN  IF v.mag = << >> THEN <<"0", "s">>
        ELSE Seconds(NatDivRem(q[9], 60))

\* ------------------------------------------------------------------------
\* Duration: {value: time.Duration, valid, unmarshaled}
\* ------------------------------------------------------------------------

NewDuration(value) == [value |-> value, valid |-> TRUE, unmarshaled |-> FALSE]

NewNullDuration == [value |-> IntZero, valid |-> FALSE, unmarshaled |-> FALSE]

DurationSet(d, value) == [d EXCEPT !.value = value, !.valid = TRUE]

DurationSetNull(d) == [d EXCEPT !.value = IntZero, !.valid = FALSE]

DurationUnmarshalText(d, data) ==
    LET d1 == [d EXCEPT !.unmarshaled = TRUE]
        Store(r) ==
            IF r.err # "nil" THEN [n |-> d1, err |-> r.err]
            ELSE [n |-> [d1 EXCEPT !.value = r.v, !.valid = TRUE], err |-> "nil"]
    IN  IF Len(data) = 0 THEN [n |-> DurationSetNull(d1), err |-> "nil"]
        ELSE Store(ParseDuration(data))

DurationMarshalJSON(d) ==
    IF d.valid THEN [err |-> "nil", data |-> JsonQuote(DurationString(d.value))]
    ELSE [err |-> "nil", data |-> NullLit]

DurationUnmarshalJSON(d, data) ==
    LET d1 == [d EXCEPT !.unmarshaled = TRUE]
        Store(r) ==
            IF r.err # "nil" THEN [n |-> d1, err |-> r.err]
            ELSE [n |-> [d1 EXCEPT !.value = r.v, !.valid = TRUE], err |-> "nil"]
        Parsed(j) ==
            IF j.err # "nil" THEN [err |-> j.err, v |-> IntZero]
            ELSE ParseDuration(j.v)
    IN  IF data = NullLit THEN [n |-> DurationSetNull(d1), err |-> "nil"]
        ELSE Store(Parsed(JsonUnmarshalString(data, << >>)))

\* ------------------------------------------------------------------------
\* time.Time: a civil date and time in UTC, [y, mo, d, h, mi, s]
\* ------------------------------------------------------------------------

MkTime(y, mo, d, h, mi, s) == [y |-> y, mo |-> mo, d |-> d, h |-> h, mi |-> mi, s |-> s]

\* time.Time{}
ZeroTime == MkTime(1, 1, 1, 0, 0, 0)

IsLeap(y) == y % 4 = 0 /\ (y % 100 # 0 \/ y % 400 = 0)

DaysIn(mo, y) ==
    IF mo = 2 THEN (IF IsLeap(y) THEN 29 ELSE 28)
    ELSE IF mo \in {4, 6, 9, 11} THEN 30 ELSE 31

\* the layouts of package time as sequences of layout elements
timeFormats ==
    <<
      \* time.ANSIC
      <<"Mon", " ", "Jan", " ", "_2", " ", "15", ":", "04", ":", "05", " ", "2006">>,
      \* time.UnixDate
      <<"Mon", " ", "Jan", " ", "_2", " ", "15", ":", "04", ":", "05", " ", "MST", " ", "2006">>,
      \* time.RubyDate
      <<"Mon", " ", "Jan", " ", "02", " ", "15", ":", "04", ":", "05", " ", "-0700", " ", "2006">>,
      \* time.RFC822
      <<"02", " ", "Jan", " ", "06", " ", "15", ":", "04", " ", "MST">>,
      \* time.RFC822Z
      <<"02", " ", "Jan", " ", "06", " ", "15", ":", "04", " ", "-0700">>,
      \* time.RFC850
      <<"Monday", ",", " ", "02", "-", "Jan", "-", "06", " ", "15", ":", "04", ":", "05", " ", "MST">>,
      \* time.RFC1123
      <<"Mon", ",", " ", "02", " ", "Jan", " ", "2006", " ", "15", ":", "04", ":", "05", " ", "MST">>,
      \* time.RFC1123Z
      <<"Mon", ",", " ", "02", " ", "Jan", " ", "2006", " ", "15", ":", "04", ":", "05", " ", "-0700">>,
      \* time.RFC3339
      <<"2006", "-", "01", "-", "02", "T", "15", ":", "04", ":", "05", "Z07:00">>,
      \* time.RFC3339Nano
      <<"2006", "-", "01", "-", "02", "T", "15", ":", "04", ":", "05", ".999999999", "Z07:00">>,
      \* time.Kitchen
      <<"3", ":", "04", "PM">>,
      \* time.Stamp
      <<"Jan", " ", "_2", " ", "15", ":", "04", ":", "05">>,
      \* time.StampMilli
      <<"Jan", " ", "_2", " ", "15", ":", "04", ":", "05", ".000">>,
      \* time.StampMicro
      <<"Jan", " ", "_2", " ", "15", ":", "04", ":", "05", ".000000">>,
      \* time.StampNano
      <<"Jan", " ", "_2", " ", "15", ":", "04", ":", "05", ".000000000">>,
      \* time.DateTime
      <<"2006", "-", "01", "-", "02", " ", "15", ":", "04", ":", "05">>,
      \* time.DateOnly
      <<"2006", "-", "01", "-", "02">>,
      \* time.TimeOnly
      <<"15", ":", "04", ":", "05">>,
      \* "2006-01-02 15:04"
      <<"2006", "-", "01", "-", "02", " ", "15", ":", "04">>,
      \* "02/01/2006 15:04:05"
      <<"02", "/", "01", "/", "2006", " ", "15", ":", "04", ":", "05">>,
      \* "02/01/2006 15:04"
      <<"02", "/", "01", "/", "2006", " ", "15", ":", "04">>,
      \* "02/01/2006"
      <<"02", "/", "01", "/", "2006">>,
      \* "15:04"
      <<"15", ":", "04">>
    >>

\* layout elements that stand for a name or a numeric zone; the strings of
\* the model carry none of them
NameElements ==
    {"Mon", "Monday", "Jan", "MST", "PM", "-0700", "_2", "3", "06",
     ".000", ".000000", ".000000000"}

\* one layout element against str from position p (1-based), with the
\* fields f read so far
TimeElement(el, str, p, f) ==
    LET n    == Len(str)
        dig(k) == p + k - 1 <= n /\ AllDigits(SubSeq(str, p, p + k - 1))
        num(k) == SmallVal(SubSeq(str, p, p + k - 1))
        fail == [ok |-> FALSE, p |-> p, f |-> f]
    IN  CASE el = "2006" ->
               IF dig(4) THEN [ok |-> TRUE, p |-> p + 4, f |-> [f EXCEPT !.y = num(4)]]
               ELSE fail
          [] el = "01" ->
               IF dig(2) /\ num(2) \in 1..12
               THEN [ok |-> TRUE, p |-> p + 2, f |-> [f EXCEPT !.mo = num(2)]]
               ELSE fail
          [] el = "02" ->
               IF dig(2) THEN [ok |-> TRUE, p |-> p + 2, f |-> [f EXCEPT !.d = num(2)]]
               ELSE fail
          [] el = "15" ->
               IF dig(2) /\ num(2) < 24
               THEN [ok |-> TRUE, p |-> p + 2, f |-> [f EXCEPT !.h = num(2)]]
               ELSE fail
          [] el = "04" ->
               IF dig(2) /\ num(2) < 60
               THEN [ok |-> TRUE, p |-> p + 2, f |-> [f EXCEPT !.mi = num(2)]]
               ELSE fail
          [] el = "05" ->
               IF dig(2) /\ num(2) < 60
               THEN [ok |-> TRUE, p |-> p + 2, f |-> [f EXCEPT !.s = num(2)]]
               ELSE fail
          [] el = "Z07:00" ->
               IF p <= n /\ str[p] = "Z" THEN [ok |-> TRUE, p |-> p + 1, f |-> f]
               ELSE fail
          [] el = ".999999999" -> [ok |-> TRUE, p |-> p, f |-> f]
          [] el \in NameElements -> fail
          [] OTHER ->
               IF p <= n /\ str[p] = el THEN [ok |-> TRUE, p |-> p + 1, f |-> f]
               ELSE fail

\* time.Parse(layout, str): every element in turn, no text left over, and a
\* day that exists in its month
TimeParse(layout, str) ==
    LET step(prev, el) ==
            IF ~prev.ok THEN prev ELSE TimeElement(el, str, prev.p, prev.f)
        st[i \in 0..Len(layout)] ==
            IF i = 0 THEN [ok |-> TRUE, p |-> 1, f |-> MkTime(0, 1, 1, 0, 0, 0)]
            ELSE step(st[i - 1], layout[i])
        Result(end) ==
            IF end.ok /\ end.p = Len(str) + 1
               /\ end.f.d \in 1..DaysIn(end.f.mo, end.f.y)
            THEN [err |-> "nil", v |-> end.f]
            ELSE [err |-> "parse", v |-> ZeroTime]
    IN  Result(st[Len(layout)])

Pad2(k) == <<DigitChars[(k \div 10) + 1], DigitChars[(k % 10) + 1]>>

Pad4(k) == Pad2(k \div 100) \o Pad2(k % 100)

\* t.Format(time.RFC3339) of a UTC time
FormatRFC3339(t) ==
    Pad4(t.y) \o <<"-">> \o Pad2(t.mo) \o <<"-">> \o Pad2(t.d) \o <<"T">>
    \o Pad2(t.h) \o <<":">> \o Pad2(t.mi) \o <<":">> \o Pad2(t.s) \o <<"Z">>

\* ------------------------------------------------------------------------
\* Arithmetic of time.Time: days since 0001-01-01 and seconds of the day
\* ------------------------------------------------------------------------

\* the days from 0001-01-01 to the first day of year y, proleptic Gregorian
DaysBeforeYear(y) ==
    365 * (y - 1) + ((y - 1) \div 4) - ((y - 1) \div 100) + ((y - 1) \div 400)

DaysBeforeMonth(y, mo) ==
    LET sum[k \in 0..(mo - 1)] == IF k = 0 THEN 0 ELSE sum[k - 1] + DaysIn(k, y)
    IN  sum[mo - 1]

\* time.Date normalises a day outside its month by counting days
DayNumber(y, mo, d) == DaysBeforeYear(y) + DaysBeforeMonth(y, mo) + d - 1

SecondOfDay(t) == t.h * 3600 + t.mi * 60 + t.s

\* the civil time of second sod of the day that is days after 0001-01-01
CivilOf(days, sod) ==
    LET y   == CHOOSE c \in ((days \div 366) - 1)..((days \div 365) + 2) :
                  DaysBeforeYear(c) <= days /\ days < DaysBeforeYear(c + 1)
        rem == days - DaysBeforeYear(y)
        mo  == CHOOSE c \in 1..12 :
                  DaysBeforeMonth(y, c) <= rem /\ rem < DaysBeforeMonth(y, c) + DaysIn(c, y)
    IN  MkTime(y, mo, rem - DaysBeforeMonth(y, mo) + 1,
               sod \div 3600, (sod % 3600) \div 60, sod % 60)

\* the whole seconds of a time.Duration of the model
DurationSeconds(v) ==
    LET q == IntQuo(v, MkInt(FALSE, NatMulSmalls(<<1>>, Giga)))
        small[i \in 0..Len(q.mag)] ==
            IF i = 0 THEN 0 ELSE small[i - 1] * 256 + q.mag[Len(q.mag) - i + 1]
    IN  IF q.neg THEN 0 - small[Len(q.mag)] ELSE small[Len(q.mag)]

\* t.Add(d) for d of secs seconds
GoTimeAdd(t, secs) ==
    LET total == SecondOfDay(t) + secs
    IN  CivilOf(DayNumber(t.y, t.mo, t.d) + (total \div 86400), total % 86400)

\* t.AddDate(years, months, days): time.Date of the sums of the fields
GoTimeAddDate(t, years, months, days) ==
    LET mo0 == t.mo - 1 + months
    IN  CivilOf(DayNumber(t.y + years + (mo0 \div 12), (mo0 % 12) + 1, t.d + days),
                SecondOfDay(t))

\* the seconds of t since the zero time modulo secs > 0, for secs that
\* divide a day or are small
SinceZeroMod(t, secs) ==
    ((DayNumber(t.y, t.mo, t.d) % secs) * (86400 % secs) + SecondOfDay(t)) % secs

\* t.Truncate(d): t unchanged for d <= 0
GoTimeTruncate(t, secs) ==
    IF secs <= 0 THEN t ELSE GoTimeAdd(t, 0 - SinceZeroMod(t, secs))

\* t.Round(d): halfway values round up; t unchanged for d <= 0
GoTimeRound(t, secs) ==
    LET Nearest(r) == IF r + r < secs THEN GoTimeAdd(t, 0 - r)
                      ELSE GoTimeAdd(t, secs - r)
    IN  IF secs <= 0 THEN t ELSE Nearest(SinceZeroMod(t, secs))

\* ------------------------------------------------------------------------
\* Time: {value: sql.NullTime{Time, Valid}, unmarshaled}
\* ------------------------------------------------------------------------

NewTime(value) == [value |-> value, valid |-> TRUE, unmarshaled |-> FALSE]

NewNullTime == [value |-> ZeroTime, valid |-> FALSE, unmarshaled |-> FALSE]

TimeSet(t, value) == [t EXCEPT !.value = value, !.valid = TRUE]

TimeSetNull(t) == [t EXCEPT !.value = ZeroTime, !.valid = FALSE]
\* the loop cut short after the layouts of package time: the layouts the
\* program declares itself are never tried
FirstLayoutOfPackageTime(parsed) ==
    IF \E i \in 1..18 : parsed[i].err = "nil"
    THEN CHOOSE i \in 1..18 :
            /\ parsed[i].err = "nil"
            /\ \A j \in 1..(i - 1) : parsed[j].err # "nil"
    ELSE 0

\* the index of the first layout whose time.Parse succeeded, 0 if none, given
\* the result of time.Parse for each layout of timeFormats
FirstLayout(parsed) ==
    IF \E i \in DOMAIN parsed : parsed[i].err = "nil"
    THEN CHOOSE i \in DOMAIN parsed :
            /\ parsed[i].err = "nil"
            /\ \A j \in 1..(i - 1) : parsed[j].err # "nil"
    ELSE 0

\* the loop over timeFormats shared by UnmarshalText and UnmarshalJSON
TimeParseLayouts(t, str) ==
    LET Store(parsed, i) ==
            IF i = 0 THEN [n |-> t, err |-> "format"]
            ELSE [n |-> [t EXCEPT !.value = parsed[i].v, !.valid = TRUE],
                  err |-> "nil"]
        Loop(parsed) == Store(parsed, FirstLayout(parsed))
    IN  Loop([i \in 1..Len(timeFormats) |-> TimeParse(timeFormats[i], str)])

TimeUnmarshalText(t, data) ==
    LET t1 == [t EXCEPT !.unmarshaled = TRUE]
    IN  IF data = << >> THEN [n |-> TimeSetNull(t1), err |-> "nil"]
        ELSE TimeParseLayouts(t1, data)

TimeMarshalJSON(t) ==
    IF t.valid THEN [err |-> "nil", data |-> JsonQuote(FormatRFC3339(t.value))]
    ELSE [err |-> "nil", data |-> NullLit]

TimeUnmarshalJSON(t, data) ==
    LET t1 == [t EXCEPT !.unmarshaled = TRUE]
        Parsed(j) ==
            IF j.err # "nil" THEN [n |-> t1, err |-> j.err]
            ELSE TimeParseLayouts(t1, j.v)
    IN  IF data = NullLit THEN [n |-> TimeSetNull(t1), err |-> "nil"]
        ELSE Parsed(JsonUnmarshalString(data, << >>))

\* AddDate that passes the validity of the receiver on
TimeAddDateKeepsValidity(t, years, months, days) ==
    [t EXCEPT !.value = GoTimeAddDate(t.value, years, months, days)]

\* AddDate, Add, Round and Truncate work on the copy t of the receiver
TimeAddDate(t, years, months, days) ==
    [t EXCEPT !.value = GoTimeAddDate(t.value, years, months, days), !.valid = TRUE]

\* value is a Duration instance; value.Get() returns its stored duration
TimeAdd(t, value) ==
    [t EXCEPT !.value = GoTimeAdd(t.value, DurationSeconds(value.value)),
              !.valid = TRUE]

TimeRound(t, value) ==
    [t EXCEPT !.value = GoTimeRound(t.value, DurationSeconds(value.value)),
              !.valid = TRUE]

TimeTruncate(t, value) ==
    [t EXCEPT !.value = GoTimeTruncate(t.value, DurationSeconds(value.value)),
              !.valid = TRUE]

\* ------------------------------------------------------------------------
\* The values and payloads the model draws from
\* ------------------------------------------------------------------------

SmallInts == {IntOf(k) : k \in (0 - MaxSmall)..MaxSmall}

SmallFloats == {FloatFin(k, 0) : k \in (0 - MaxSmall)..MaxSmall}

\* the values handed to the constructors and to Set
ValuesOf(kind, wb) ==
    CASE kind \in IntegerKinds ->
           {v \in SmallInts : InRange(kind, wb, v)} \cup {MinOf(kind, wb), MaxOf(kind, wb)}
      [] kind = "float32" ->
           SmallFloats \cup {FloatFin(645, 0 - 1), FloatFin(0 - 125, 0 - 9),
                             FNaN, FInf, FNegInf}
      [] kind = "float64" ->
           SmallFloats \cup {FloatFin(645, 0 - 1), FloatFin(0 - 125, 0 - 9),
                             FloatFin(1, 39), FNaN, FInf, FNegInf}
      [] kind = "Byte" -> {v \in SmallInts : InRange("uint8", 64, v)} \cup {MaxUintOf(8)}
      [] kind = "Bool" -> BOOLEAN
      [] kind = "String" -> {<< >>, <<"a">>, <<"a", "\"", "b">>}
      [] kind = "Time" -> {ZeroTime, MkTime(2023, 1, 1, 0, 0, 0), MkTime(2024, 3, 4, 10, 30, 0)}
      [] kind = "Duration" ->
           {IntZero, MkInt(FALSE, NatMulSmalls(<<90>>, Giga)),
            MkInt(TRUE, NatMulSmalls(<<1>>, Giga))}
      [] kind = "Map" -> {NilMap} \cup {MakeMap(kv) : kv \in MapKVs}

\* the decimal text of the ends of the signed and unsigned ranges of a width
\* and of their neighbours outside them
BoundaryTexts(bits) ==
    CASE bits = 8 ->
           {<<"1", "2", "7">>,
            <<"1", "2", "8">>,
            <<"-", "1", "2", "8">>,
            <<"-", "1", "2", "9">>,
            <<"2", "5", "5">>,
            <<"2", "5", "6">>}
      [] bits = 16 ->
           {<<"3", "2", "7", "6", "7">>,
            <<"3", "2", "7", "6", "8">>,
            <<"-", "3", "2", "7", "6", "8">>,
            <<"-", "3", "2", "7", "6", "9">>,
            <<"6", "5", "5", "3", "5">>,
            <<"6", "5", "5", "3", "6">>}
      [] bits = 32 ->
           {<<"2", "1", "4", "7", "4", "8", "3", "6", "4", "7">>,
            <<"2", "1", "4", "7", "4", "8", "3", "6", "4", "8">>,
            <<"-", "2", "1", "4", "7", "4", "8", "3", "6", "4", "8">>,
            <<"-", "2", "1", "4", "7", "4", "8", "3", "6", "4", "9">>,
            <<"4", "2", "9", "4", "9", "6", "7", "2", "9", "5">>,
            <<"4", "2", "9", "4", "9", "6", "7", "2", "9", "6">>}
      [] bits = 64 ->
           {<<"9", "2", "2", "3", "3", "7", "2", "0", "3", "6", "8", "5", "4", "7", "7", "5", "8", "0", "7">>,
            <<"9", "2", "2", "3", "3", "7", "2", "0", "3", "6", "8", "5", "4", "7", "7", "5", "8", "0", "8">>,
            <<"-", "9", "2", "2", "3", "3", "7", "2", "0", "3", "6", "8", "5", "4", "7", "7", "5", "8", "0", "8">>,
            <<"-", "9", "2", "2", "3", "3", "7", "2", "0", "3", "6", "8", "5", "4", "7", "7", "5", "8", "0", "9">>,
            <<"1", "8", "4", "4", "6", "7", "4", "4", "0", "7", "3", "7", "0", "9", "5", "5", "1", "6", "1", "5">>,
            <<"1", "8", "4", "4", "6", "7", "4", "4", "0", "7", "3", "7", "0", "9", "5", "5", "1", "6", "1", "6">>}

SmallTexts == {FormatInt(v) : v \in SmallInts}

IntegerOddTexts ==
    {<< >>,
     <<"6", "4", ".", "5">>,
     <<"1", "2", "3", ".", "5">>,
     <<"a", "b", "c">>,
     <<"+", "1">>,
     <<"-", "0">>,
     <<"1", "e", "2">>,
     <<"n", "u", "l", "l">>,
     <<"\"", "5", "\"">>}

FloatOddTexts ==
    {<< >>,
     <<"6", "4", ".", "5">>,
     <<"1", "2", "3", ".", "5">>,
     <<"a", "b", "c">>,
     <<"+", "1">>,
     <<"1", "e", "2">>,
     <<"N", "a", "N">>,
     <<"I", "n", "f">>,
     <<"1", "e", "3", "9">>,
     <<"1", "e", "4", "0", "0">>,
     <<"n", "u", "l", "l">>,
     <<"\"", "5", "\"">>}

BytePayloads ==
    {<< >>,
     <<"0">>,
     <<"1">>,
     <<"2", "5", "5">>,
     <<"2", "5", "6">>,
     <<"-", "1">>,
     <<"a", "b", "c">>,
     <<"n", "u", "l", "l">>,
     <<"\"", "a", "b", "c", "\"">>,
     <<"6", "4", ".", "5">>}

BoolPayloads ==
    {<< >>,
     <<"t", "r", "u", "e">>,
     <<"f", "a", "l", "s", "e">>,
     <<"1">>,
     <<"T">>,
     <<"a", "b", "c">>,
     <<"n", "u", "l", "l">>,
     <<"\"", "a", "\"">>,
     <<"5">>}

StringPayloads ==
    {<< >>,
     <<"a">>,
     <<"\"", "a", "\"">>,
     <<"\"", "a", "\\", "\"", "b", "\"">>,
     <<"n", "u", "l", "l">>,
     <<"5">>,
     <<"a", "b", "c">>}

TimePayloads ==
    {<< >>,
     <<"2", "0", "2", "3", "-", "0", "1", "-", "0", "1", "T", "0", "0", ":", "0", "0", ":", "0", "0", "Z">>,
     <<"2", "0", "2", "3", "-", "0", "1", "-", "0", "1">>,
     <<"2", "0", "2", "3", "-", "0", "1", "-", "0", "1", " ", "1", "0", ":", "0", "0", ":", "0", "0">>,
     <<"2", "0", "2", "3", "-", "0", "1", "-", "0", "1", " ", "1", "0", ":", "0", "0">>,
     <<"3", "1", "/", "1", "2", "/", "2", "0", "2", "3">>,
     <<"1", "5", ":", "0", "4">>,
     <<"2", "0", "2", "3", "-", "0", "2", "-", "3", "0">>,
     <<"a", "b", "c">>,
     <<"n", "u", "l", "l">>,
     <<"\"", "2", "0", "2", "3", "-", "0", "1", "-", "0", "1", "T", "0", "0", ":", "0", "0", ":", "0", "0", "Z", "\"">>,
     <<"\"", "2", "0", "2", "3", "-", "0", "1", "-", "0", "1", "\"">>,
     <<"\"", "a", "b", "c", "\"">>,
     <<"\"", "\"">>,
     <<"5">>}

DurationPayloads ==
    {<< >>,
     <<"1", "h", "3", "0", "m">>,
     <<"9", "0", "s">>,
     <<"0">>,
     <<"a", "b", "c">>,
     <<"n", "u", "l", "l">>,
     <<"\"", "1", "h", "3", "0", "m", "\"">>,
     <<"\"", "-", "1", "s", "\"">>,
     <<"\"", "a", "b", "c", "\"">>,
     <<"5">>}

MapPayloads ==
    {<< >>,
     <<"n", "u", "l", "l">>,
     <<"{", "}">>,
     <<"{", "\"", "a", "\"", ":", "1", "}">>,
     <<"{", "\"", "a", "\"", ":", "1", ",", "\"", "b", "\"", ":", "2", "}">>,
     <<"a", "b", "c">>,
     <<"5">>,
     <<"\"", "a", "\"">>}

\* the payloads handed to UnmarshalText and UnmarshalJSON; uintptr also gets
\* the 64-bit texts, which its signed parse accepts or rejects
PayloadsOf(kind, wb) ==
    CASE kind = "uintptr" ->
           IntegerOddTexts \cup SmallTexts \cup BoundaryTexts(wb) \cup BoundaryTexts(64)
      [] kind \in IntegerKinds \ {"uintptr"} ->
           IntegerOddTexts \cup SmallTexts \cup BoundaryTexts(Bits(kind, wb))
      [] kind \in FloatKinds -> FloatOddTexts \cup SmallTexts
      [] kind = "Byte" -> BytePayloads
      [] kind = "Bool" -> BoolPayloads
      [] kind = "String" -> StringPayloads
      [] kind = "Time" -> TimePayloads
      [] kind = "Duration" -> DurationPayloads
      [] kind = "Map" -> MapPayloads

\* driver values handed to Scan
ScanSources ==
    {SrcNil}
    \cup {SrcInt(v) : v \in SmallInts \cup {IntOf(300)}}
    \cup {SrcFloat(FloatFin(645, 0 - 1)), SrcString(<<"1">>),
          SrcString(<<"a", "b", "c">>), SrcBytes(<<"0">>), SrcBool(TRUE)}

\* the sources of a kind: a time for the kinds that store or print one, and
\* texts that the Duration and Map decoders accept
ScanSourcesOf(kind) ==
    ScanSources \cup
    (CASE kind \in {"Time", "String"} -> {SrcTime(MkTime(2023, 1, 1, 0, 0, 0))}
       [] kind = "Duration" -> {SrcString(<<"9", "0", "s">>)}
       [] kind = "Map" -> {SrcString(JsonMarshalKV([k \in {"a"} |-> 1])), SrcBytes(NullLit)}
       [] OTHER -> {})

\* ------------------------------------------------------------------------
\* The operations of every wrapper, by kind
\* ------------------------------------------------------------------------
\* ------------------------------------------------------------------------
\* MarshalText of Byte, Bool, String, Time, Duration and Map: a null
\* instance gives no bytes, a null Map the text null
\* ------------------------------------------------------------------------

ByteMarshalText(b) ==
    IF b.valid THEN [err |-> "nil", data |-> FormatInt(b.value)]
    ELSE [err |-> "nil", data |-> << >>]

BoolMarshalText(b) ==
    IF b.valid THEN [err |-> "nil", data |-> IF b.value THEN TrueLit ELSE FalseLit]
    ELSE [err |-> "nil", data |-> << >>]

StringMarshalText(s) ==
    IF s.valid THEN [err |-> "nil", data |-> s.value]
    ELSE [err |-> "nil", data |-> << >>]

TimeMarshalText(t) ==
    IF t.valid THEN [err |-> "nil", data |-> FormatRFC3339(t.value)]
    ELSE [err |-> "nil", data |-> << >>]

DurationMarshalText(d) ==
    IF d.valid THEN [err |-> "nil", data |-> DurationString(d.value)]
    ELSE [err |-> "nil", data |-> << >>]

MapMarshalText(m) ==
    IF m.valid THEN JsonMarshalMap(m.value)
    ELSE [err |-> "nil", data |-> NullLit]

\* ------------------------------------------------------------------------
\* Scan of Byte, Bool, String, Time, Duration and Map
\* ------------------------------------------------------------------------

\* sql.NullByte.Scan: Valid tells whether the conversion succeeded; a source
\* that is not nil is converted through its text
ByteScan(b, src) ==
    LET Store(r) ==
            IF r.err # "nil" THEN [n |-> [b EXCEPT !.valid = FALSE], err |-> "convert"]
            ELSE [n |-> [b EXCEPT !.value = r.v, !.valid = TRUE], err |-> "nil"]
    IN  IF src.t = "nil"
        THEN [n |-> [b EXCEPT !.value = IntZero, !.valid = FALSE], err |-> "nil"]
        ELSE Store(StrconvParseUint(asString(src), 8))

\* driver.Bool.ConvertValue: a bool, a text strconv.ParseBool accepts, or
\* the integers 1 and 0
DriverBool(src) ==
    CASE src.t = "bool" -> [err |-> "nil", v |-> src.b]
      [] src.t \in {"string", "bytes"} -> StrconvParseBool(src.s)
      [] src.t = "int64" /\ src.i \in {IntOf(0), IntOf(1)} ->
           [err |-> "nil", v |-> src.i = IntOf(1)]
      [] OTHER -> [err |-> "convert", v |-> FALSE]

\* sql.NullBool.Scan: Valid is set before the conversion
BoolScan(b, src) ==
    LET Store(r) ==
            IF r.err # "nil" THEN [n |-> [b EXCEPT !.valid = TRUE], err |-> "convert"]
            ELSE [n |-> [b EXCEPT !.value = r.v, !.valid = TRUE], err |-> "nil"]
    IN  IF src.t = "nil"
        THEN [n |-> [b EXCEPT !.value = FALSE, !.valid = FALSE], err |-> "nil"]
        ELSE Store(DriverBool(src))

\* sql.NullString.Scan: every source has a text
StringScan(s, src) ==
    IF src.t = "nil"
    THEN [n |-> [s EXCEPT !.value = << >>, !.valid = FALSE], err |-> "nil"]
    ELSE [n |-> [s EXCEPT !.valid = TRUE,
                          !.value = IF src.t = "time" THEN FormatRFC3339(src.tm)
                                    ELSE asString(src)],
          err |-> "nil"]

\* sql.NullTime.Scan: only a time.Time can be stored
TimeScan(t, src) ==
    CASE src.t = "nil" ->
           [n |-> [t EXCEPT !.value = ZeroTime, !.valid = FALSE], err |-> "nil"]
      [] src.t = "time" ->
           [n |-> [t EXCEPT !.value = src.tm, !.valid = TRUE], err |-> "nil"]
      [] OTHER -> [n |-> [t EXCEPT !.valid = TRUE], err |-> "unsupported"]

DurationScan(d, src) ==
    LET Store(r) ==
            IF r.err # "nil" THEN [n |-> d, err |-> r.err]
            ELSE [n |-> [d EXCEPT !.value = r.v, !.valid = TRUE], err |-> "nil"]
    IN  CASE src.t = "nil" ->
               [n |-> [d EXCEPT !.value = IntZero, !.valid = FALSE], err |-> "nil"]
          [] src.t = "int64" ->
               [n |-> [d EXCEPT !.value = src.i, !.valid = TRUE], err |-> "nil"]
          [] src.t = "string" -> Store(ParseDuration(src.s))
          [] OTHER -> [n |-> d, err |-> "unsupported"]

MapScan(m, src) ==
    LET Store(r) ==
            IF r.err # "nil" THEN [n |-> [m EXCEPT !.valid = FALSE], err |-> r.err]
            ELSE [n |-> [m EXCEPT !.valid = TRUE, !.value = r.v], err |-> "nil"]
    IN  CASE src.t = "nil" ->
               [n |-> [m EXCEPT !.valid = FALSE, !.value = MakeMap(<< >>)],
                err |-> "nil"]
          [] src.t \in {"string", "bytes"} ->
               Store(JsonUnmarshalMap(src.s, MakeMap(<< >>)))
          [] OTHER -> [n |-> m, err |-> "invalid type"]

\* ------------------------------------------------------------------------
\* Equal and EqualRaw of Byte, Bool, String, Time and Duration
\* ------------------------------------------------------------------------

ByteEqual(b, other) == b.value = other.value /\ b.valid = other.valid

ByteEqualRaw(b, other) == b.value = other

BoolEqual(b, other) == b.value = other.value /\ b.valid = other.valid

BoolEqualRaw(b, other) == b.value = other

StringEqual(s, other) == s.value = other.value /\ s.valid = other.valid

StringEqualRaw(s, other) == s.value = other

\* time.Time.Equal: the same instant
TimeEqual(t, other) == t.valid = other.valid /\ t.value = other.value

TimeEqualRaw(t, other) == t.valid /\ t.value = other

DurationEqual(d, other) == d.valid = other.valid /\ d.value = other.value

DurationEqualRaw(d, other) == d.valid /\ d.value = other

\* ------------------------------------------------------------------------
\* IsZero of Byte, Bool, String, Time, Duration and Map
\* ------------------------------------------------------------------------

ByteIsZero(b) == ~b.valid

BoolIsZero(b) == ~b.value

\* String.IsEmpty
StringIsZero(s) == ~s.valid \/ s.value = << >>

\* Time.IsEmpty, with time.Time.IsZero
TimeIsZero(t) == ~t.valid \/ t.value = ZeroTime

DurationIsZero(d) == ~d.valid \/ d.value = IntZero

\* len(m.value) == 0
MapIsZero(m) == m.value.kv = << >>

OtherKinds == {"Byte", "Bool", "String", "Time", "Duration", "Map"}

WrapperKinds == NumericKinds \cup OtherKinds

Get(w) == w.value

IsNull(w) == ~w.valid

Unmarshaled(w) == w.unmarshaled

SetUnmarshaledOf(w, value) == [w EXCEPT !.unmarshaled = value]

\* the zero value of the wrapped type
ZeroValue(kind) ==
    CASE kind \in NumericKinds -> ZeroOf(kind)
      [] kind \in {"Byte", "Duration"} -> IntZero
      [] kind = "Bool" -> FALSE
      [] kind = "String" -> << >>
      [] kind = "Time" -> ZeroTime
      [] kind = "Map" -> NilMap

\* the value is the zero value of the wrapped type; for a map, it has no entry
IsZeroValue(kind, v) ==
    IF kind = "Map" THEN v.kv = << >> ELSE v = ZeroValue(kind)

NewOf(kind, value) ==
    CASE kind \in NumericKinds -> NewNumber(value)
      [] kind = "Byte" -> NewByte(value)
      [] kind = "Bool" -> NewBool(value)
      [] kind = "String" -> NewString(value)
      [] kind = "Time" -> NewTime(value)
      [] kind = "Duration" -> NewDuration(value)
      [] kind = "Map" -> NewMap(value)

NewNullOf(kind) ==
    CASE kind \in NumericKinds -> NewNullNumber(kind)
      [] kind = "Byte" -> NewNullByte
      [] kind = "Bool" -> NewNullBool
      [] kind = "String" -> NewNullString
      [] kind = "Time" -> NewNullTime
      [] kind = "Duration" -> NewNullDuration
      [] kind = "Map" -> NewNullMap

SetOf(kind, w, value) ==
    CASE kind \in NumericKinds -> NumericSet(w, value)
      [] kind = "Byte" -> ByteSet(w, value)
      [] kind = "Bool" -> BoolSet(w, value)
      [] kind = "String" -> StringSet(w, value)
      [] kind = "Time" -> TimeSet(w, value)
      [] kind = "Duration" -> DurationSet(w, value)
      [] kind = "Map" -> MapSet(w, value)

SetNullOf(kind, w) ==
    CASE kind \in NumericKinds -> NumericSetNull(w, kind)
      [] kind = "Byte" -> ByteSetNull(w)
      [] kind = "Bool" -> BoolSetNull(w)
      [] kind = "String" -> StringSetNull(w)
      [] kind = "Time" -> TimeSetNull(w)
      [] kind = "Duration" -> DurationSetNull(w)
      [] kind = "Map" -> MapSetNull(w)

UnmarshalTextOf(kind, wb, w, data) ==
    CASE kind \in NumericKinds -> NumericUnmarshalText(w, kind, wb, data)
      [] kind = "Byte" -> ByteUnmarshalText(w, data)
      [] kind = "Bool" -> BoolUnmarshalText(w, data)
      [] kind = "String" -> StringUnmarshalText(w, data)
      [] kind = "Time" -> TimeUnmarshalText(w, data)
      [] kind = "Duration" -> DurationUnmarshalText(w, data)
      [] kind = "Map" -> MapUnmarshalText(w, data)

UnmarshalJSONOf(kind, wb, w, data) ==
    CASE kind \in NumericKinds -> NumericUnmarshalJSON(w, kind, wb, data)
      [] kind = "Byte" -> ByteUnmarshalJSON(w, data)
      [] kind = "Bool" -> BoolUnmarshalJSON(w, data)
      [] kind = "String" -> StringUnmarshalJSON(w, data)
      [] kind = "Time" -> TimeUnmarshalJSON(w, data)
      [] kind = "Duration" -> DurationUnmarshalJSON(w, data)
      [] kind = "Map" -> MapUnmarshalJSON(w, data)

MarshalJSONOf(kind, w) ==
    CASE kind \in NumericKinds -> NumericMarshalJSON(w, kind)
      [] kind = "Byte" -> ByteMarshalJSON(w)
      [] kind = "Bool" -> BoolMarshalJSON(w)
      [] kind = "String" -> StringMarshalJSON(w)
      [] kind = "Time" -> TimeMarshalJSON(w)
      [] kind = "Duration" -> DurationMarshalJSON(w)
      [] kind = "Map" -> MapMarshalJSON(w)

MarshalTextOf(kind, w) ==
    CASE kind \in NumericKinds -> NumericMarshalText(w, kind)
      [] kind = "Byte" -> ByteMarshalText(w)
      [] kind = "Bool" -> BoolMarshalText(w)
      [] kind = "String" -> StringMarshalText(w)
      [] kind = "Time" -> TimeMarshalText(w)
      [] kind = "Duration" -> DurationMarshalText(w)
      [] kind = "Map" -> MapMarshalText(w)

\* Map has no Equal: the comparable maps are a type of their own
EqualOf(kind, w, other) ==
    CASE kind \in NumericKinds -> NumericEqual(w, other, kind)
      [] kind = "Byte" -> ByteEqual(w, other)
      [] kind = "Bool" -> BoolEqual(w, other)
      [] kind = "String" -> StringEqual(w, other)
      [] kind = "Time" -> TimeEqual(w, other)
      [] kind = "Duration" -> DurationEqual(w, other)

EqualRawOf(kind, w, other) ==
    CASE kind \in NumericKinds -> NumericEqualRaw(w, other, kind)
      [] kind = "Byte" -> ByteEqualRaw(w, other)
      [] kind = "Bool" -> BoolEqualRaw(w, other)
      [] kind = "String" -> StringEqualRaw(w, other)
      [] kind = "Time" -> TimeEqualRaw(w, other)
      [] kind = "Duration" -> DurationEqualRaw(w, other)

\* Numeric has no IsZero
IsZeroOf(kind, w) ==
    CASE kind = "Byte" -> ByteIsZero(w)
      [] kind = "Bool" -> BoolIsZero(w)
      [] kind = "String" -> StringIsZero(w)
      [] kind = "Time" -> TimeIsZero(w)
      [] kind = "Duration" -> DurationIsZero(w)
      [] kind = "Map" -> MapIsZero(w)

ScanOf(kind, wb, w, src) ==
    CASE kind \in NumericKinds -> NumericScan(w, kind, wb, src)
      [] kind = "Byte" -> ByteScan(w, src)
      [] kind = "Bool" -> BoolScan(w, src)
      [] kind = "String" -> StringScan(w, src)
      [] kind = "Time" -> TimeScan(w, src)
      [] kind = "Duration" -> DurationScan(w, src)
      [] kind = "Map" -> MapScan(w, src)

\* ------------------------------------------------------------------------
\* The state machine: one wrapper instance and the calls made on it
\* ------------------------------------------------------------------------

VARIABLES
    kind,       \* the wrapper: a numeric kind T of Numeric[T], or another wrapper
    wb,         \* the width of int, uint and uintptr on the platform
    n,          \* the instance: [value, valid, unmarshaled]
    op,         \* the last call
    arg,        \* the argument of the last call
    err,        \* the error the last call returned, "nil" for none
    out,        \* the bytes MarshalJSON returned last and the instance they are of
    onlySet,    \* no call but Set, SetNull and MarshalJSON since construction
    m,          \* a second instance of the same wrapper: the operand of a call
    res         \* what the last arithmetic, comparison or query call returned

vars == <<kind, wb, n, op, arg, err, out, onlySet, m, res>>

\* the argument of a call: the field its tag t names holds it
NoArg == [t |-> "none", v |-> ZeroValue(kind), flag |-> FALSE, data |-> << >>,
          src |-> SrcNil, key |-> "", item |-> 0, old |-> 0, items |-> << >>,
          dur |-> NewNullDuration, date |-> <<0, 0, 0>>]

NoOut == [has |-> FALSE, err |-> "nil", data |-> << >>, src |-> NewNullOf(kind)]

\* the result of a call: the fields the call returns hold it
NoRes == [n |-> NewNullOf(kind), int |-> 0, bool |-> FALSE, panic |-> FALSE,
          val |-> SrcNil]

\* a freshly constructed instance
Constructed(k, w) == {NewOf(k, v) : v \in ValuesOf(k, w)} \cup {NewNullOf(k)}

Init ==
    /\ kind \in WrapperKinds
    /\ wb \in (IF kind \in WordKinds THEN WordSizes ELSE {64})
    /\ n \in Constructed(kind, wb)
    /\ op = "New"
    /\ arg = NoArg
    /\ err = "nil"
    /\ out = NoOut
    /\ onlySet = TRUE
    /\ m = NewNullOf(kind)
    /\ res = NoRes

\* w = New...(v): a fresh instance takes the place of the current one
New ==
    /\ n' \in Constructed(kind, wb)
    /\ op' = "New"
    /\ arg' = NoArg
    /\ err' = "nil"
    /\ out' = NoOut
    /\ onlySet' = TRUE
    /\ UNCHANGED <<kind, wb, m, res>>

Set ==
    /\ \E v \in ValuesOf(kind, wb) :
          /\ n' = SetOf(kind, n, v)
          /\ arg' = [NoArg EXCEPT !.t = "value", !.v = v]
    /\ op' = "Set"
    /\ err' = "nil"
    /\ out' = NoOut
    /\ UNCHANGED <<kind, wb, m, res, onlySet>>

SetNull ==
    /\ n' = SetNullOf(kind, n)
    /\ op' = "SetNull"
    /\ arg' = NoArg
    /\ err' = "nil"
    /\ out' = NoOut
    /\ UNCHANGED <<kind, wb, m, res, onlySet>>

SetUnmarshaled ==
    /\ \E b \in BOOLEAN :
          /\ n' = SetUnmarshaledOf(n, b)
          /\ arg' = [NoArg EXCEPT !.t = "flag", !.flag = b]
    /\ op' = "SetUnmarshaled"
    /\ err' = "nil"
    /\ out' = NoOut
    /\ onlySet' = FALSE
    /\ UNCHANGED <<kind, wb, m, res>>

UnmarshalText ==
    /\ \E data \in PayloadsOf(kind, wb) :
          \E r \in {UnmarshalTextOf(kind, wb, n, data)} :
              /\ n' = r.n
              /\ err' = r.err
              /\ arg' = [NoArg EXCEPT !.t = "data", !.data = data]
    /\ op' = "UnmarshalText"
    /\ out' = NoOut
    /\ onlySet' = FALSE
    /\ UNCHANGED <<kind, wb, m, res>>

UnmarshalJSON ==
    /\ \E data \in PayloadsOf(kind, wb) :
          \E r \in {UnmarshalJSONOf(kind, wb, n, data)} :
              /\ n' = r.n
              /\ err' = r.err
              /\ arg' = [NoArg EXCEPT !.t = "data", !.data = data]
    /\ op' = "UnmarshalJSON"
    /\ out' = NoOut
    /\ onlySet' = FALSE
    /\ UNCHANGED <<kind, wb, m, res>>

MarshalJSON ==
    /\ \E r \in {MarshalJSONOf(kind, n)} :
          /\ out' = [has |-> TRUE, err |-> r.err, data |-> r.data, src |-> n]
          /\ err' = r.err
    /\ op' = "MarshalJSON"
    /\ arg' = NoArg
    /\ UNCHANGED <<kind, wb, m, res, n, onlySet>>

\* var m W; m.UnmarshalJSON(data): the bytes MarshalJSON returned are decoded
\* into a zero-value instance, which takes the place of the current one
Decode ==
    /\ out.has /\ out.err = "nil"
    /\ \E r \in {UnmarshalJSONOf(kind, wb, NewNullOf(kind), out.data)} :
          /\ n' = r.n
          /\ err' = r.err
    /\ op' = "Decode"
    /\ arg' = [NoArg EXCEPT !.t = "data", !.data = out.data]
    /\ onlySet' = FALSE
    /\ UNCHANGED <<kind, wb, m, res, out>>

Scan ==
    /\ \E src \in ScanSourcesOf(kind) :
          \E r \in {ScanOf(kind, wb, n, src)} :
              /\ n' = r.n
              /\ err' = r.err
              /\ arg' = [NoArg EXCEPT !.t = "src", !.src = src]
    /\ op' = "Scan"
    /\ out' = NoOut
    /\ onlySet' = FALSE
    /\ UNCHANGED <<kind, wb, m, res>>

Next ==
    \/ New
    \/ Set
    \/ SetNull
    \/ SetUnmarshaled
    \/ UnmarshalText
    \/ UnmarshalJSON
    \/ MarshalJSON
    \/ Decode
    \/ Scan

Spec == Init /\ [][Next]_vars

\* ------------------------------------------------------------------------
\* The calls that take a second instance or return a result: r := n.Op(m)
\* ------------------------------------------------------------------------

\* floats on which +, -, * and / are exact in binary and in decimal
FloatOperands ==
    {FloatFin(0, 0), FloatFin(1, 0), FloatFin(0 - 1, 0), FloatFin(5, 0 - 1),
     FloatFin(2, 0), FNaN, FInf, FNegInf}

\* the values the two instances are constructed from
OperandValues(k, w) ==
    CASE k \in IntegerKinds ->
           ValuesOf(k, w) \cup {v \in {IntOf(10), IntOf(120)} : InRange(k, w, v)}
      [] k \in FloatKinds -> FloatOperands
      [] OTHER -> ValuesOf(k, w)

Operands(k, w) == {NewOf(k, v) : v \in OperandValues(k, w)} \cup {NewNullOf(k)}

\* the receiver: a constructed instance, one that decoded an empty text, or
\* one whose flag a decoder or SetUnmarshaled(true) has raised
Receivers(k, w) ==
    Operands(k, w)
    \cup {UnmarshalTextOf(k, w, a, << >>).n : a \in Operands(k, w)}
    \cup {SetUnmarshaledOf(a, TRUE) : a \in Operands(k, w)}

\* a value that is not zero where the kind is numeric
UnitOf(k) ==
    IF k \in IntegerKinds THEN IntOf(1)
    ELSE IF k \in FloatKinds THEN FloatFin(1, 0)
    ELSE ZeroValue(k)

\* the operand: a constructed instance, or a decoded one
OtherOperands(k, w) ==
    Operands(k, w) \cup {SetUnmarshaledOf(NewOf(k, UnitOf(k)), TRUE)}

InitOps ==
    /\ kind \in WrapperKinds
    /\ wb \in (IF kind \in WordKinds THEN WordSizes ELSE {64})
    /\ n \in Receivers(kind, wb)
    /\ m \in OtherOperands(kind, wb)
    /\ op = "New"
    /\ arg = NoArg
    /\ err = "nil"
    /\ out = NoOut
    /\ onlySet = TRUE
    /\ res = NoRes

\* no operation of this part writes to its receiver or to its operand
Pure == UNCHANGED <<kind, wb, n, m, arg, out, onlySet>>

Add ==
    /\ kind \in NumericKinds
    /\ res' = [NoRes EXCEPT !.n = NumericAdd(n, m, kind, wb)]
    /\ op' = "Add"
    /\ err' = "nil"
    /\ Pure

Sub ==
    /\ kind \in NumericKinds
    /\ res' = [NoRes EXCEPT !.n = NumericSub(n, m, kind, wb)]
    /\ op' = "Sub"
    /\ err' = "nil"
    /\ Pure

Mult ==
    /\ kind \in NumericKinds
    /\ res' = [NoRes EXCEPT !.n = NumericMult(n, m, kind, wb)]
    /\ op' = "Mult"
    /\ err' = "nil"
    /\ Pure

Div ==
    /\ kind \in NumericKinds
    /\ \E r \in {NumericDiv(n, m, kind, wb)} :
          res' = IF r.panic THEN [NoRes EXCEPT !.panic = TRUE]
                 ELSE [NoRes EXCEPT !.n = r.n]
    /\ op' = "Div"
    /\ err' = "nil"
    /\ Pure

SafeDiv ==
    /\ kind \in NumericKinds
    /\ \E r \in {NumericSafeDiv(n, m, kind, wb)} :
          /\ res' = [NoRes EXCEPT !.n = r.n, !.panic = r.panic]
          /\ err' = r.err
    /\ op' = "SafeDiv"
    /\ Pure

Compare ==
    /\ kind \in NumericKinds
    /\ \E r \in {NumericCompare(n, m, kind)} :
          /\ res' = [NoRes EXCEPT !.int = r.int]
          /\ err' = r.err
    /\ op' = "Compare"
    /\ Pure

\* n.CompareRaw(m.Get())
CompareRaw ==
    /\ kind \in NumericKinds
    /\ \E r \in {NumericCompareRaw(n, Get(m), kind)} :
          /\ res' = [NoRes EXCEPT !.int = r.int]
          /\ err' = r.err
    /\ op' = "CompareRaw"
    /\ Pure

Greater ==
    /\ kind \in NumericKinds
    /\ res' = [NoRes EXCEPT !.bool = NumericGreater(n, m, kind)]
    /\ op' = "Greater"
    /\ err' = "nil"
    /\ Pure

GreaterOrEqual ==
    /\ kind \in NumericKinds
    /\ res' = [NoRes EXCEPT !.bool = NumericGreaterOrEqual(n, m, kind)]
    /\ op' = "GreaterOrEqual"
    /\ err' = "nil"
    /\ Pure

Less ==
    /\ kind \in NumericKinds
    /\ res' = [NoRes EXCEPT !.bool = NumericLess(n, m, kind)]
    /\ op' = "Less"
    /\ err' = "nil"
    /\ Pure

LessOrEqual ==
    /\ kind \in NumericKinds
    /\ res' = [NoRes EXCEPT !.bool = NumericLessOrEqual(n, m, kind)]
    /\ op' = "LessOrEqual"
    /\ err' = "nil"
    /\ Pure

Min ==
    /\ kind \in NumericKinds
    /\ res' = [NoRes EXCEPT !.n = NumericMin(n, m, kind)]
    /\ op' = "Min"
    /\ err' = "nil"
    /\ Pure

Max ==
    /\ kind \in NumericKinds
    /\ res' = [NoRes EXCEPT !.n = NumericMax(n, m, kind)]
    /\ op' = "Max"
    /\ err' = "nil"
    /\ Pure

Equal ==
    /\ kind # "Map"
    /\ res' = [NoRes EXCEPT !.bool = EqualOf(kind, n, m)]
    /\ op' = "Equal"
    /\ err' = "nil"
    /\ Pure

\* n.EqualRaw(m.Get())
EqualRaw ==
    /\ kind # "Map"
    /\ res' = [NoRes EXCEPT !.bool = EqualRawOf(kind, n, Get(m))]
    /\ op' = "EqualRaw"
    /\ err' = "nil"
    /\ Pure

IsZero ==
    /\ kind \in OtherKinds
    /\ res' = [NoRes EXCEPT !.bool = IsZeroOf(kind, n)]
    /\ op' = "IsZero"
    /\ err' = "nil"
    /\ Pure

\* the standard library the program is built with decides between the two
\* behaviours of sql.Null[T].Value
Value ==
    /\ kind \in NumericKinds
    /\ \E converts \in BOOLEAN :
          \E r \in {NumericValue(n, kind, converts)} :
              /\ res' = [NoRes EXCEPT !.val = r.v]
              /\ err' = r.err
    /\ op' = "Value"
    /\ Pure

\* the Duration instances handed to Add, Round and Truncate
DurationArgs ==
    {NewDuration(v) : v \in ValuesOf("Duration", 64)}
    \cup {NewDuration(MkInt(FALSE, NatMulSmalls(<<36, 100>>, Giga))), NewNullDuration}

\* years, months and days handed to AddDate
DateArgs == {<<1, 2, 3>>, <<0, 1, 0>>, <<0, 0, 0 - 1>>}

\* the methods have value receivers: the instance of the caller is not written
AddDate ==
    /\ kind = "Time"
    /\ \E a \in DateArgs :
          /\ res' = [NoRes EXCEPT !.n = TimeAddDate(n, a[1], a[2], a[3])]
          /\ arg' = [NoArg EXCEPT !.t = "date", !.date = a]
    /\ op' = "AddDate"
    /\ err' = "nil"
    /\ UNCHANGED <<kind, wb, n, m, out, onlySet>>

AddDuration ==
    /\ kind = "Time"
    /\ \E d \in DurationArgs :
          /\ res' = [NoRes EXCEPT !.n = TimeAdd(n, d)]
          /\ arg' = [NoArg EXCEPT !.t = "dur", !.dur = d]
    /\ op' = "Time.Add"
    /\ err' = "nil"
    /\ UNCHANGED <<kind, wb, n, m, out, onlySet>>

Round ==
    /\ kind = "Time"
    /\ \E d \in DurationArgs :
          /\ res' = [NoRes EXCEPT !.n = TimeRound(n, d)]
          /\ arg' = [NoArg EXCEPT !.t = "dur", !.dur = d]
    /\ op' = "Round"
    /\ err' = "nil"
    /\ UNCHANGED <<kind, wb, n, m, out, onlySet>>

Truncate ==
    /\ kind = "Time"
    /\ \E d \in DurationArgs :
          /\ res' = [NoRes EXCEPT !.n = TimeTruncate(n, d)]
          /\ arg' = [NoArg EXCEPT !.t = "dur", !.dur = d]
    /\ op' = "Truncate"
    /\ err' = "nil"
    /\ UNCHANGED <<kind, wb, n, m, out, onlySet>>

\* the text is kept in the result, for the operand to decode it
MarshalText ==
    /\ \E r \in {MarshalTextOf(kind, n)} :
          /\ res' = [NoRes EXCEPT !.val = SrcBytes(r.data)]
          /\ err' = r.err
    /\ op' = "MarshalText"
    /\ Pure

\* w := m; w.UnmarshalText(data) for the bytes data that n.MarshalText()
\* returned: the decoded copy of the operand is the result
DecodeText ==
    /\ op = "MarshalText" /\ err = "nil"
    /\ \E r \in {UnmarshalTextOf(kind, wb, m, res.val.s)} :
          /\ res' = [NoRes EXCEPT !.n = r.n, !.val = res.val]
          /\ err' = r.err
    /\ op' = "DecodeText"
    /\ Pure

NextOps ==
    \/ Add
    \/ Sub
    \/ Mult
    \/ Div
    \/ SafeDiv
    \/ Compare
    \/ CompareRaw
    \/ Greater
    \/ GreaterOrEqual
    \/ Less
    \/ LessOrEqual
    \/ Min
    \/ Max
    \/ Equal
    \/ EqualRaw
    \/ IsZero
    \/ Value
    \/ AddDate
    \/ AddDuration
    \/ Round
    \/ Truncate
    \/ MarshalText
    \/ DecodeText

SpecOps == InitOps /\ [][NextOps]_vars

\* ------------------------------------------------------------------------
\* The calls on the entries of a Map[string, int] and of a MapComparable
\* ------------------------------------------------------------------------

ItemKeys == {MapKeys[i] : i \in DOMAIN MapKeys}

ItemValues == {1, 2}

\* what an iterator handed to Insert yields
ItemSeqs ==
    {<< >>, <<(<<"a", 1>>)>>, <<(<<"a", 2>>), <<"b", 1>>>>, <<(<<"b", 2>>), <<"b", 1>>>>}

InitMap ==
    /\ kind = "Map"
    /\ Init

\* the frame of a call on the entries of n
MapFrame == UNCHANGED <<kind, wb, m, out, onlySet>>

GetItem ==
    /\ \E key \in ItemKeys :
          \E g \in {MapGetItem(n, key)} :
              /\ res' = [NoRes EXCEPT !.int = g.item, !.bool = g.ok]
              /\ arg' = [NoArg EXCEPT !.t = "key", !.key = key]
    /\ op' = "GetItem"
    /\ err' = "nil"
    /\ UNCHANGED n
    /\ MapFrame

SetItem ==
    /\ \E key \in ItemKeys, value \in ItemValues :
          \E r \in {MapSetItem(n, key, value)} :
              /\ n' = r.n
              /\ res' = [NoRes EXCEPT !.panic = r.panic]
              /\ arg' = [NoArg EXCEPT !.t = "item", !.key = key, !.item = value]
    /\ op' = "SetItem"
    /\ err' = "nil"
    /\ MapFrame

SetItemIf ==
    /\ \E key \in ItemKeys, value \in ItemValues, condition \in BOOLEAN :
          \E r \in {MapSetItemIf(n, key, value, condition)} :
              /\ n' = r.n
              /\ res' = [NoRes EXCEPT !.panic = r.panic]
              /\ arg' = [NoArg EXCEPT !.t = "item", !.key = key, !.item = value,
                                      !.flag = condition]
    /\ op' = "SetItemIf"
    /\ err' = "nil"
    /\ MapFrame

DeleteItem ==
    /\ \E key \in ItemKeys :
          \E r \in {MapDeleteItem(n, key)} :
              /\ n' = r.n
              /\ res' = [NoRes EXCEPT !.int = r.item, !.bool = r.ok]
              /\ arg' = [NoArg EXCEPT !.t = "key", !.key = key]
    /\ op' = "DeleteItem"
    /\ err' = "nil"
    /\ MapFrame

Insert ==
    /\ \E items \in ItemSeqs :
          \E r \in {MapInsert(n, items)} :
              /\ n' = r.n
              /\ res' = [NoRes EXCEPT !.panic = r.panic]
              /\ arg' = [NoArg EXCEPT !.t = "items", !.items = items]
    /\ op' = "Insert"
    /\ err' = "nil"
    /\ MapFrame

CompareAndSwap ==
    /\ \E key \in ItemKeys, old \in ItemValues, new \in ItemValues :
          \E r \in {MapCompareAndSwap(n, key, old, new)} :
              /\ n' = r.n
              /\ res' = [NoRes EXCEPT !.bool = r.swapped, !.panic = r.panic]
              /\ arg' = [NoArg EXCEPT !.t = "swap", !.key = key, !.old = old,
                                      !.item = new]
    /\ op' = "CompareAndSwap"
    /\ err' = "nil"
    /\ MapFrame

DeleteIfEquals ==
    /\ \E key \in ItemKeys, value \in ItemValues :
          \E r \in {MapDeleteIfEquals(n, key, value)} :
              /\ n' = r.n
              /\ res' = [NoRes EXCEPT !.bool = r.deleted]
              /\ arg' = [NoArg EXCEPT !.t = "item", !.key = key, !.item = value]
    /\ op' = "DeleteIfEquals"
    /\ err' = "nil"
    /\ MapFrame

NextMap ==
    \/ New
    \/ Set
    \/ SetNull
    \/ UnmarshalJSON
    \/ GetItem
    \/ SetItem
    \/ SetItemIf
    \/ DeleteItem
    \/ Insert
    \/ CompareAndSwap
    \/ DeleteIfEquals

SpecMap == InitMap /\ [][NextMap]_vars

\* ------------------------------------------------------------------------
\* Properties
\* ------------------------------------------------------------------------

DecodeOps == {"UnmarshalText", "UnmarshalJSON"}

\* C1: a Numeric that is null holds the zero value of its kind, after any
\* sequence of constructor, Set, SetNull, UnmarshalText, UnmarshalJSON and
\* Scan calls.  Not so: UnmarshalText of an empty payload and a failed
\* UnmarshalJSON clear Valid and leave V.
C1_NullHoldsZero ==
    kind \in NumericKinds /\ IsNull(n) => Get(n) = ZeroOf(kind)

\* C2: on every wrapper Set(v) leaves Get() = v and IsNull() = false, SetNull()
\* leaves the zero value and IsNull() = true, and neither changes
\* Unmarshaled(), whatever the state before the call.
C2_SetAndSetNull ==
    [][(op' = "Set" =>
            (Get(n') = arg'.v /\ ~IsNull(n') /\ Unmarshaled(n') = Unmarshaled(n)))
       /\ (op' = "SetNull" =>
            (IsZeroValue(kind, Get(n')) /\ IsNull(n')
             /\ Unmarshaled(n') = Unmarshaled(n)))]_vars

\* a Set of a non-zero value on an instance that had been unmarshaled
C2_Witness ==
    /\ op = "Set"
    /\ Unmarshaled(n)
    /\ ~IsNull(n)
    /\ Get(n) = arg.v
    /\ ~IsZeroValue(kind, Get(n))

\* C3: every UnmarshalText or UnmarshalJSON call leaves Unmarshaled() = true,
\* whether the payload gives a value, gives null or fails; an instance that
\* was constructed and then only changed by Set and SetNull has
\* Unmarshaled() = false.
C3_UnmarshaledFlag ==
    /\ op \in DecodeOps \cup {"Decode"} => Unmarshaled(n)
    /\ onlySet => ~Unmarshaled(n)

\* an UnmarshalText that failed
C3_Witness ==
    /\ op = "UnmarshalText"
    /\ err # "nil"
    /\ Unmarshaled(n)

\* C4: when UnmarshalText or UnmarshalJSON on a Numeric fails, the stored
\* value and the valid flag are what they were before the call.  Not so: a
\* failed UnmarshalJSON clears Valid and keeps the stored value.
C4_FailureKeepsValueAndValid ==
    [][(kind \in NumericKinds /\ op' \in DecodeOps /\ err' # "nil") =>
            (Get(n') = Get(n) /\ IsNull(n') = IsNull(n))]_vars

\* C5: when UnmarshalText or UnmarshalJSON on a Numeric, Byte or Bool returns
\* an error the instance is null afterwards, whatever it was before.  Not so:
\* Bool.UnmarshalJSON sets Valid before it decodes, and a failed UnmarshalText
\* leaves Valid as it was.
C5_ErrorLeavesNull ==
    kind \in NumericKinds \cup {"Byte", "Bool"} /\ op \in DecodeOps /\ err # "nil"
        => IsNull(n)

\* C6: Numeric.UnmarshalText of an empty payload succeeds and leaves
\* valid = false, the zero value and unmarshaled = true, whatever the state
\* before the call.  Not so: the stored value is left as it was.
C6_EmptyTextIsNull ==
    kind \in NumericKinds /\ op = "UnmarshalText" /\ arg.data = << >> =>
        /\ err = "nil"
        /\ IsNull(n)
        /\ Get(n) = ZeroOf(kind)
        /\ Unmarshaled(n)

\* an optional sign and at least one decimal digit
IsDecimalLiteral(s) ==
    /\ s # << >>
    /\ StripSign(s) # << >>
    /\ AllDigits(StripSign(s))

\* the integer a decimal literal denotes
DecimalValue(s) == MkInt(s[1] = "-", DigitsNat(StripSign(s)))

\* C7: for every signed integer kind, UnmarshalText of a decimal integer
\* literal succeeds exactly when the integer lies in [min(K), max(K)], and
\* then stores that integer with valid = true.
C7_SignedRange ==
    kind \in SignedKinds /\ op = "UnmarshalText" /\ IsDecimalLiteral(arg.data) =>
        /\ err = "nil" <=> InRange(kind, wb, DecimalValue(arg.data))
        /\ err = "nil" => ~IsNull(n) /\ Get(n) = DecimalValue(arg.data)

\* "127" accepted by an int8 with the value 127
C7_Witness ==
    /\ kind = "int8"
    /\ op = "UnmarshalText"
    /\ arg.data = <<"1", "2", "7">>
    /\ err = "nil"
    /\ ~IsNull(n)
    /\ FormatInt(Get(n)) = <<"1", "2", "7">>

FractionalTexts == {<<"6", "4", ".", "5">>, <<"1", "2", "3", ".", "5">>}

\* C8: for every integer kind a payload with a fractional part, through
\* UnmarshalJSON or UnmarshalText, returns an error, stores no truncated
\* value and leaves valid = false; the same payload into a float kind
\* succeeds.  Not so: a failed UnmarshalText leaves a valid instance valid.
C8_FractionRejected ==
    op \in DecodeOps /\ arg.data \in FractionalTexts =>
        /\ kind \in IntegerKinds => err # "nil" /\ IsNull(n)
        /\ kind \in FloatKinds => err = "nil" /\ ~IsNull(n)

\* C9 as stated: for every numeric kind and every value v of it, MarshalJSON
\* of NewNumber(v) decoded by UnmarshalJSON into a fresh Numeric succeeds and
\* leaves Get() = v, valid = true and unmarshaled = true.  Not so: MarshalJSON
\* of NaN and of the infinities returns an error.
C9_RoundTripEveryValue ==
    /\ kind \in NumericKinds /\ op = "MarshalJSON" /\ ~IsNull(n) => err = "nil"
    /\ kind \in NumericKinds /\ op = "Decode" /\ ~IsNull(out.src) =>
         /\ err = "nil"
         /\ Get(n) = Get(out.src)
         /\ ~IsNull(n)
         /\ Unmarshaled(n)

\* C9, amended: for every numeric kind and every value v of it other than
\* NaN and the infinities the round trip reproduces v; for NaN and the
\* infinities MarshalJSON returns an error.
C9_RoundTripFinite ==
    /\ kind \in NumericKinds /\ op = "MarshalJSON" /\ ~IsNull(n) =>
         (err = "nil" <=> (kind \in IntegerKinds \/ Get(n).cls = "fin"))
    /\ kind \in NumericKinds /\ op = "Decode" /\ ~IsNull(out.src) =>
         /\ err = "nil"
         /\ Get(n) = Get(out.src)
         /\ ~IsNull(n)
         /\ Unmarshaled(n)

\* a non-zero value decoded back from its own JSON
C9_Witness ==
    /\ kind \in NumericKinds
    /\ op = "Decode"
    /\ ~IsNull(out.src)
    /\ Get(out.src) # ZeroOf(kind)
    /\ err = "nil"
    /\ Get(n) = Get(out.src)

\* C10: on every wrapper MarshalJSON of a null instance gives exactly null,
\* and UnmarshalJSON of null succeeds and leaves valid = false, the zero value
\* and unmarshaled = true, whatever the state before the call.
C10_NullRoundTrip ==
    /\ op = "MarshalJSON" /\ IsNull(n) => out.err = "nil" /\ out.data = NullLit
    /\ op \in {"UnmarshalJSON", "Decode"} /\ arg.data = NullLit =>
         /\ err = "nil"
         /\ IsNull(n)
         /\ IsZeroValue(kind, Get(n))
         /\ Unmarshaled(n)

\* null decoded into the instance a null instance was marshaled from
C10_Witness ==
    /\ op = "Decode"
    /\ IsNull(out.src)
    /\ out.data = NullLit
    /\ IsNull(n)
    /\ Unmarshaled(n)

\* C11: for every numeric kind, Add, Sub and Mult return a null result
\* (valid=false, value zero) whenever at least one operand is null, and a
\* valid result whenever both operands are valid.
C11_AbsorbingArithmetic ==
    op \in {"Add", "Sub", "Mult"} =>
        IF IsNull(n) \/ IsNull(m)
        THEN IsNull(res.n) /\ Get(res.n) = ZeroOf(kind)
        ELSE ~IsNull(res.n)

\* a null receiver that still stores a value, multiplied by a valid operand
C11_Witness ==
    /\ op = "Mult"
    /\ IsNull(n) /\ Get(n) # ZeroOf(kind)
    /\ ~IsNull(m) /\ Get(m) # ZeroOf(kind)
    /\ IsNull(res.n)

\* a and b differ by a multiple of 2^bits
CongruentMod(a, b, bits) ==
    \A i \in 1..(bits \div 8) : Limb(IntSub(a, b).mag, i) = 0

\* the exact integer result of the last Add, Sub or Mult
ExactResult ==
    CASE op = "Add" -> IntAdd(Get(n), Get(m))
      [] op = "Sub" -> IntSub(Get(n), Get(m))
      [] op = "Mult" -> IntMul(Get(n), Get(m))

\* C12: for every integer kind of width w, Add, Sub and Mult on two valid
\* operands return a valid result whose value lies in the range of the kind
\* and is congruent to the exact result modulo 2^w; no error is returned.
C12_IntegerWraparound ==
    (op \in {"Add", "Sub", "Mult"} /\ kind \in IntegerKinds /\ ~IsNull(n) /\ ~IsNull(m)) =>
        /\ ~IsNull(res.n)
        /\ err = "nil" /\ ~res.panic
        /\ InRange(kind, wb, Get(res.n))
        /\ CongruentMod(Get(res.n), ExactResult, Bits(kind, wb))

\* int8: 120 + 10 gives -126
C12_Witness ==
    /\ op = "Add" /\ kind = "int8"
    /\ ~IsNull(n) /\ Get(n) = IntOf(120)
    /\ ~IsNull(m) /\ Get(m) = IntOf(10)
    /\ Get(res.n) = IntOf(0 - 126)

\* q is the quotient a / b of the wrapped type: truncated toward zero for
\* integers, wrapped only for the least value of a signed kind divided by -1
IsQuotient(q, a, b) ==
    IF kind \in FloatKinds
    THEN (a.cls = "fin" /\ b.cls = "fin") => FloatMul(q, b, 64) = a
    ELSE IF kind \in SignedKinds /\ a = MinOf(kind, wb) /\ b = IntOf(0 - 1)
    THEN q = a
    ELSE LET r == IntSub(a, IntMul(q, b))
         IN  NatCmp(r.mag, b.mag) < 0 /\ (r = IntZero \/ r.neg = a.neg)

\* the divisor of the last call is null or zero
BadDivisor == IsNull(m) \/ Get(m) = ZeroOf(kind)

\* C13: SafeDiv with a divisor that is null or zero returns a null result
\* and an error; Div panics exactly when the divisor is null or zero; with
\* a valid non-zero divisor and a valid dividend both return the valid
\* quotient, SafeDiv without an error.
C13_Division ==
    /\ (op = "SafeDiv" /\ BadDivisor) =>
           IsNull(res.n) /\ Get(res.n) = ZeroOf(kind) /\ err # "nil"
    /\ op = "Div" => (res.panic <=> BadDivisor)
    /\ (op \in {"Div", "SafeDiv"} /\ ~BadDivisor /\ ~IsNull(n)) =>
           /\ ~IsNull(res.n)
           /\ err = "nil" /\ ~res.panic
           /\ IsQuotient(Get(res.n), Get(n), Get(m))

\* a valid dividend divided by a valid zero
C13_Witness ==
    /\ op = "SafeDiv"
    /\ ~IsNull(n) /\ Get(n) # ZeroOf(kind)
    /\ ~IsNull(m) /\ Get(m) = ZeroOf(kind)
    /\ err # "nil" /\ IsNull(res.n)

\* the result c of comparing a with b: one of -1, 0, 1, and -1 if a is
\* smaller, 0 if they are equal, 1 if a is larger
ThreeWay(c, a, b) ==
    /\ c \in {0 - 1, 0, 1}
    /\ LessT(kind, a, b) => c = 0 - 1
    /\ EqT(kind, a, b) => c = 0
    /\ LessT(kind, b, a) => c = 1

\* C14: Compare returns an error exactly when either operand is null and
\* CompareRaw exactly when the receiver is null; without an error the
\* result is -1, 0 or 1 for a smaller, equal or larger receiver, and
\* Compare(a, b) = -Compare(b, a).
C14_Compare ==
    /\ op = "Compare" =>
           /\ err # "nil" <=> (IsNull(n) \/ IsNull(m))
           /\ err = "nil" =>
                  /\ ThreeWay(res.int, Get(n), Get(m))
                  /\ res.int = 0 - NumericCompare(m, n, kind).int
    /\ op = "CompareRaw" =>
           /\ err # "nil" <=> IsNull(n)
           /\ err = "nil" => ThreeWay(res.int, Get(n), Get(m))

\* a valid receiver smaller than a valid operand
C14_Witness ==
    /\ op = "Compare"
    /\ ~IsNull(n) /\ ~IsNull(m)
    /\ LessT(kind, Get(n), Get(m))
    /\ err = "nil" /\ res.int = 0 - 1

OrderOps == {"Greater", "GreaterOrEqual", "Less", "LessOrEqual"}

\* C15: Greater, Less, GreaterOrEqual and LessOrEqual return false, without
\* failing, whenever either operand is null; when both operands are valid
\* they agree with Compare: Greater iff Compare = 1, Less iff Compare = -1,
\* GreaterOrEqual iff Compare >= 0, LessOrEqual iff Compare <= 0.  Not so for
\* a float operand that is NaN: Compare returns 0 and both GreaterOrEqual
\* and LessOrEqual return false.
C15_OrderAgreesWithCompare ==
    op \in OrderOps =>
        /\ err = "nil" /\ ~res.panic
        /\ (IsNull(n) \/ IsNull(m)) =>
               ~res.bool /\ NumericCompare(n, m, kind).err # "nil"
        /\ (~IsNull(n) /\ ~IsNull(m)) =>
               /\ NumericCompare(n, m, kind).err = "nil"
               /\ op = "Greater" => (res.bool <=> NumericCompare(n, m, kind).int = 1)
               /\ op = "Less" => (res.bool <=> NumericCompare(n, m, kind).int = 0 - 1)
               /\ op = "GreaterOrEqual" =>
                      (res.bool <=> NumericCompare(n, m, kind).int >= 0)
               /\ op = "LessOrEqual" =>
                      (res.bool <=> NumericCompare(n, m, kind).int <= 0)

ValueMatches(a, b) == a = b /\ ~(kind \in FloatKinds /\ a.cls = "nan")

\* C17: Equal is true exactly when both the value and the valid flag match;
\* EqualRaw compares the value only, whatever the valid flag, so a null
\* instance of every kind gives EqualRaw(zero value) = true.  Not so: Time
\* and Duration answer false for every null receiver, and a null Numeric
\* that still stores a value does not equal zero.
C17_EqualAndEqualRaw ==
    /\ op = "Equal" =>
           (res.bool <=> (ValueMatches(Get(n), Get(m)) /\ IsNull(n) = IsNull(m)))
    /\ op = "EqualRaw" =>
           /\ res.bool <=> ValueMatches(Get(n), Get(m))
           /\ (IsNull(n) /\ Get(m) = ZeroValue(kind)) => res.bool

\* C18: IsZero is true for a null instance and for a valid instance that
\* holds the zero of its kind (Byte 0, String "", the zero instant, Duration
\* 0, a Map with no entries), and false for a valid instance that holds
\* anything else; for Bool it is true exactly when the held value is false.
\* Not so for Byte: a valid Byte holding 0 answers false.
C18_IsZero ==
    op = "IsZero" =>
        IF kind = "Bool" THEN res.bool <=> (Get(n) = FALSE)
        ELSE res.bool <=> (IsNull(n) \/ IsZeroValue(kind, Get(n)))

\* C19: Numeric.Value returns a nil driver value and no error for a null
\* instance; for a valid one it returns, without error, the stored value as
\* an int64 for every integer kind and as a float64 for the float kinds.
\* Not so: a uint64 above 2^63-1 comes back as an error or as a uint64,
\* never as an int64.
C19_Value ==
    op = "Value" =>
        /\ err = "nil"
        /\ res.val = (IF IsNull(n) THEN SrcNil
                      ELSE IF kind \in IntegerKinds THEN SrcInt(Get(n))
                      ELSE SrcFloat(Get(n)))

\* C20: for every wrapper kind, Scan(nil) returns no error and leaves
\* valid=false with the zero value, whatever the instance held before.
C20_ScanNil ==
    (op = "Scan" /\ arg.src = SrcNil) =>
        /\ err = "nil"
        /\ IsNull(n)
        /\ IsZeroValue(kind, Get(n))

\* Scan(nil) on an instance that had been through a decoder before
C20_Witness ==
    /\ op = "Scan" /\ arg.src = SrcNil
    /\ Unmarshaled(n)
    /\ IsNull(n)
    /\ kind \in OtherKinds

\* C21: Scan with a source that cannot be converted to the wrapper's kind
\* returns an error and leaves the instance null (valid=false).
C21_ScanFailureLeavesNull ==
    (op = "Scan" /\ err # "nil") => IsNull(n)

\* the string a Time decoder hands to the layouts: the payload of
\* UnmarshalText, the decoded JSON string of UnmarshalJSON
LayoutInput ==
    IF op = "UnmarshalText" THEN [has |-> TRUE, s |-> arg.data]
    ELSE IF op = "UnmarshalJSON" /\ arg.data # NullLit
            /\ JsonUnmarshalString(arg.data, << >>).err = "nil"
    THEN [has |-> TRUE, s |-> JsonUnmarshalString(arg.data, << >>).v]
    ELSE [has |-> FALSE, s |-> << >>]

\* the positions in timeFormats of the layouts that parse s
Matching(s) ==
    {i \in 1..Len(timeFormats) : TimeParse(timeFormats[i], s).err = "nil"}

\* the decoder stored what the earliest matching layout reads from s, or
\* failed when no layout matches
ResolvedToEarliest(s) ==
    IF Matching(s) = {} THEN err # "nil"
    ELSE /\ err = "nil"
         /\ ~IsNull(n)
         /\ \E i \in Matching(s) :
               /\ \A j \in Matching(s) : i <= j
               /\ Get(n) = TimeParse(timeFormats[i], s).v

HasEntry(w, key, value) ==
    key \in DOMAIN w.value.kv /\ w.value.kv[key] = value

\* the maps of v and w differ at most at key
SameButAt(v, w, key) ==
    /\ DOMAIN v.value.kv \ {key} = DOMAIN w.value.kv \ {key}
    /\ \A k \in DOMAIN v.value.kv \ {key} : v.value.kv[k] = w.value.kv[k]

\* a step of CompareAndSwap(key, old, new) swaps exactly when the entry of
\* key is old
CompareAndSwapStep ==
    op' = "CompareAndSwap" =>
        (IF HasEntry(n, arg'.key, arg'.old)
         THEN (/\ res'.bool /\ ~res'.panic
               /\ HasEntry(n', arg'.key, arg'.item)
               /\ SameButAt(n, n', arg'.key))
         ELSE (~res'.bool /\ ~res'.panic /\ n' = n))

\* a step of DeleteIfEquals(key, v) deletes exactly when the entry of key is v
DeleteIfEqualsStep ==
    op' = "DeleteIfEquals" =>
        (IF HasEntry(n, arg'.key, arg'.item)
         THEN (/\ res'.bool
               /\ arg'.key \notin DOMAIN n'.value.kv
               /\ SameButAt(n, n', arg'.key))
         ELSE (~res'.bool /\ n' = n))

\* C23: CompareAndSwap(key, old, new) returns true and sets key to new
\* exactly when key is present with a value equal to old, and otherwise
\* returns false and leaves the map unchanged; DeleteIfEquals(key, v) returns
\* true and removes key exactly when key is present with a value equal to v,
\* and otherwise returns false and leaves the map unchanged.
C23_ConditionalMutations == [][CompareAndSwapStep /\ DeleteIfEqualsStep]_vars

\* a swap that replaced the value of a key of a map with two entries
C23_Witness ==
    /\ op = "CompareAndSwap" /\ res.bool
    /\ arg.old # arg.item
    /\ HasEntry(n, arg.key, arg.item)
    /\ Cardinality(DOMAIN n.value.kv) = 2

\* C24: for every unsigned kind, uintptr included, UnmarshalText rejects
\* every negative decimal payload, and accepts a non-negative decimal integer
\* exactly when it is at most max(K), storing that integer.
C24_UnsignedRange ==
    (kind \in UnsignedKinds /\ op = "UnmarshalText" /\ IsDecimalLiteral(arg.data)) =>
        IF arg.data[1] = "-" THEN err # "nil"
        ELSE IF arg.data[1] = "+" THEN TRUE
        ELSE /\ err = "nil" <=> ~IntGreater(DecimalValue(arg.data), MaxOf(kind, wb))
             /\ err = "nil" => (~IsNull(n) /\ Get(n) = DecimalValue(arg.data))

\* C25: SafeDiv returns a null result and an error whenever the divisor is
\* zero or either operand, dividend or divisor, is null, and Div panics in
\* the same cases.
C25_NullOperandsOfDivision ==
    (kind \in NumericKinds /\ (IsNull(n) \/ BadDivisor)) =>
        /\ op = "SafeDiv" => (err # "nil" /\ IsNull(res.n))
        /\ op = "Div" => res.panic

TimeOps == {"AddDate", "Time.Add", "Round", "Truncate"}

\* C26: AddDate, Add, Round and Truncate of Time return a new Time with the
\* validity of the receiver: a valid receiver gives a valid result, a null
\* receiver a null result, and the receiver itself is not modified.
C26_ValidityMaintained ==
    [][(kind = "Time" /\ op' \in TimeOps) =>
          (IsNull(res'.n) = IsNull(n) /\ n' = n)]_vars

\* the operations that return a new Numeric built from the two operands
ArithmeticOps == {"Add", "Sub", "Mult", "SafeDiv"}

\* C27: Add, Sub, Mult, SafeDiv, Min, Max, Compare and the relational
\* operations never change either operand (value, valid, unmarshaled), and
\* the result of Add, Sub, Mult and SafeDiv has unmarshaled=false, even when
\* both operands have unmarshaled=true.
C27_OperandsUntouched ==
    [][(kind \in NumericKinds
        /\ op' \in ArithmeticOps \cup OrderOps \cup {"Min", "Max", "Compare"}) =>
          /\ n' = n /\ m' = m
          /\ op' \in ArithmeticOps => ~Unmarshaled(res'.n)]_vars

\* a valid difference of two valid operands that both have unmarshaled=true
C27_Witness ==
    /\ kind \in NumericKinds /\ op = "Sub"
    /\ Unmarshaled(n) /\ Unmarshaled(m)
    /\ ~IsNull(n) /\ ~IsNull(m)
    /\ ~IsNull(res.n) /\ ~Unmarshaled(res.n)

\* C28: SafeDiv never aborts for operands of an integer kind: with a valid
\* dividend and a valid divisor that is not zero it returns no error and the
\* quotient truncated toward zero, and for a signed kind the least value
\* divided by -1 wraps to the least value.
C28_SafeDivTotal ==
    (kind \in IntegerKinds /\ op = "SafeDiv") =>
        /\ ~res.panic
        /\ (~IsNull(n) /\ ~BadDivisor) =>
              /\ err = "nil"
              /\ ~IsNull(res.n)
              /\ IsQuotient(Get(res.n), Get(n), Get(m))
        /\ (kind \in SignedKinds /\ ~IsNull(n) /\ ~IsNull(m)
            /\ Get(n) = MinOf(kind, wb) /\ Get(m) = IntOf(0 - 1)) =>
              Get(res.n) = MinOf(kind, wb)

\* the least value of a signed kind divided by -1
C28_Witness ==
    /\ kind \in SignedKinds /\ op = "SafeDiv"
    /\ ~IsNull(n) /\ ~IsNull(m)
    /\ Get(n) = MinOf(kind, wb) /\ Get(m) = IntOf(0 - 1)
    /\ err = "nil" /\ Get(res.n) = MinOf(kind, wb)

\* C29: SetItem, SetItemIf with a true condition, and Insert complete
\* without aborting on any Map, one built by NewNullMap, the zero Map and one
\* that went through SetNull included, and afterwards the Map is valid and
\* GetItem returns the written value for the written key.
C29_WritesNeverAbort ==
    /\ (op = "SetItem" \/ (op = "SetItemIf" /\ arg.flag)) =>
           /\ ~res.panic
           /\ ~IsNull(n)
           /\ MapGetItem(n, arg.key) = [item |-> arg.item, ok |-> TRUE]
    /\ op = "Insert" =>
           /\ ~res.panic
           /\ ~IsNull(n)
           /\ \A i \in DOMAIN arg.items :
                 (\A j \in (i + 1)..Len(arg.items) : arg.items[j][1] # arg.items[i][1])
                     => MapGetItem(n, arg.items[i][1])
                            = [item |-> arg.items[i][2], ok |-> TRUE]

\* C30: for Numeric, Byte, Bool, String, Time and Duration, UnmarshalText
\* applied to the output of MarshalText of a null instance returns no error
\* and leaves a null instance (valid=false) with unmarshaled=true.
C30_NullTextRoundTrip ==
    (kind # "Map" /\ op = "DecodeText" /\ IsNull(n)) =>
        /\ err = "nil"
        /\ IsNull(res.n)
        /\ Unmarshaled(res.n)

====
